---- MODULE Spec2Model ----
(***************************************************************************)
(* State-machine model of the quant_trading_bot_starter core:              *)
(*   backtest/engine.py      BacktestEngine._run_vectorized (bar loop)     *)
(*   risk/risk_manager.py    RiskManager (halt state machine, rule checks, *)
(*                           positions, trailing stops)                    *)
(*                                                                         *)
(* Numbers.  The code computes in floats; the model computes the same      *)
(* expressions exactly, in fixed-point integers:                           *)
(*   - a rate (commission, slippage) r is the integer r * RateDen;         *)
(*   - a share count q is the integer q * ShareScale;                      *)
(*   - a price of the bar series is an integer number of ticks; an         *)
(*     execution price (a close with slippage) is in 1/RateDen ticks;      *)
(*   - money (cash, equity, commission, pnl) is in 1/MoneyScale ticks,     *)
(*     MoneyScale = ShareScale * RateDen * RateDen, so that every product  *)
(*     the loop forms is an integer.                                       *)
(***************************************************************************)
EXTENDS Integers, Sequences, FiniteSets, TLC

VARIABLES
    \* ---- BacktestEngine._run_vectorized ----
    config,        \* BacktestConfig of the run
    bar,           \* i: index of the bar processed last (0 before the loop)
    sig,           \* sig[bar]
    close,         \* close[bar]
    cash,
    shares,
    entry_price,
    entry_idx,
    equity,        \* equity[bar]
    trades,        \* the ledger, a sequence of Trade records
    leg,           \* history variable: what bar `bar` traded and what it cost
    \* ---- RiskManager ----
    limits,          \* RiskLimits
    current_capital,
    peak_equity,
    positions,       \* symbol -> Position, for the open symbols
    equity_history,  \* sequence of <<ts.date(), equity>>
    trade_history,
    daily_trades,
    last_trade_date,
    is_halted,
    halt_reason,
    cooldown_until,
    now,             \* datetime.now(), in ticks
    last,            \* history variable: the last call made and what it returned
    seen,            \* history variable: symbol -> prices seen since its entry
    adds,            \* history variable: the number of add_position calls made
    adds_today,      \* history variable: those made on the current local date
    callers,         \* the callers of a live runner: what each has checked so far
    \* ---- PositionSizer ----
    sizer,           \* the sizer object: its class, parameters and Kelly statistics
    sized,           \* history variable: the last calculate_size call and its result
    \* ---- two runs of one engine ----
    history,         \* history variable: the bars of the current run, as
                     \* position_history with what each bar was given
    first,           \* history variable: the run before this one, if any
    \* ---- results and analyses ----
    measured,        \* the last calculate_metrics call and the metrics it returned
    backtest,        \* what BacktestEngine.run has returned or raised, if it has
    walk,            \* run_walk_forward: its arguments, loop index and results
    monte,           \* run_monte_carlo: its arguments, trade returns and trials
    multi            \* MultiAssetBacktester.run: its config, weights and merged trades

engineVars == <<config, bar, sig, close, cash, shares, entry_price, entry_idx,
                equity, trades, leg>>

managerVars == <<limits, current_capital, peak_equity, positions, equity_history,
                 trade_history, daily_trades, last_trade_date, is_halted,
                 halt_reason, cooldown_until, now, last, seen, adds, adds_today, callers>>

sizerVars == <<sizer, sized>>

rerunVars == <<history, first>>

reportVars == <<measured, backtest, walk, monte, multi>>

vars == <<config, bar, sig, close, cash, shares, entry_price, entry_idx,
          equity, trades, leg,
          limits, current_capital, peak_equity, positions, equity_history,
          trade_history, daily_trades, last_trade_date, is_halted,
          halt_reason, cooldown_until, now, last, seen, adds, adds_today, callers,
          sizer, sized, history, first, measured, backtest, walk, monte, multi>>

---------------------------------------------------------------------------
(* Bounds and scales of the model *)

MaxBars == 3
RateDen == 10
ShareScale == 2

MoneyScale == ShareScale * RateDen * RateDen

(* Inputs the runs are drawn from *)
Prices == {2, 3}                       \* data['close'] values, in ticks
Signals == {-2, -1, 0, 1, 2}           \* signal values, in halves: -1, -0.5, 0, 0.5, 1
SizerShares == {0, 1, 3}               \* size.shares, in 1/ShareScale shares
CommissionRates == {0, 1}              \* config.commission * RateDen
SlippageRates == {0, 1}                \* config.slippage * RateDen
InitialCapital == 100                  \* config.initial_capital, in ticks

---------------------------------------------------------------------------
(* Arithmetic helpers *)

Abs(x) == IF x < 0 THEN -x ELSE x

\* np.sign
Sign(x) == IF x > 0 THEN 1 ELSE IF x < 0 THEN -1 ELSE 0

\* int(x) of a non-negative share count: truncation to whole shares
IntShares(q) == (q \div ShareScale) * ShareScale

---------------------------------------------------------------------------
(* BacktestEngine._run_vectorized, one iteration of the loop *)

\* execution_price = current_price * (1 + slippage * sign(curr - prev)), in 1/RateDen ticks
ExecutionPrice(current_price, prev_signal, curr_signal) ==
    current_price * (RateDen + config.slippage * Sign(curr_signal - prev_signal))

\* commission = abs(shares) * execution_price * commission_rate, in money units
Commission(sh, execution_price) == Abs(sh) * execution_price * config.commission

\* The closing leg with the commission credited instead of charged
CashAfterCloseCredited(c, sh, execution_price) ==
    c + sh * execution_price * RateDen + Commission(sh, execution_price)

\* cash += shares * execution_price - commission   (closing leg)
CashAfterClose(c, sh, execution_price) ==
    c + sh * execution_price * RateDen - Commission(sh, execution_price)

\* The opening leg debited twice
CashAfterOpenTwice(c, sh, execution_price) ==
    c - 2 * (Abs(sh) * execution_price * RateDen + Commission(sh, execution_price))

\* cash -= abs(shares) * execution_price + commission   (opening leg)
CashAfterOpen(c, sh, execution_price) ==
    c - (Abs(sh) * execution_price * RateDen + Commission(sh, execution_price))

\* Opening a short whether or not config.allow_shorting permits it
OpenSharesUngated(curr_signal, size_shares, sh) ==
    LET q == IF config.fractional_shares THEN size_shares ELSE IntShares(size_shares)
    IN  IF curr_signal > 0 THEN q
        ELSE IF curr_signal < 0 THEN -q
        ELSE sh

\* shares = size.shares | int(size.shares) for a long, the negation for a short
\* that config.allow_shorting permits; otherwise shares keeps its value (0)
OpenShares(curr_signal, size_shares, sh) ==
    LET q == IF config.fractional_shares THEN size_shares ELSE IntShares(size_shares)
    IN  IF curr_signal > 0 THEN q
        ELSE IF curr_signal < 0 /\ config.allow_shorting THEN -q
        ELSE sh

\* equity[i] = cash + shares * current_price (long and short), cash when flat
MarkToMarketAbs(c, sh, current_price) ==
    c + Abs(sh) * current_price * RateDen * RateDen

MarkToMarket(c, sh, current_price) ==
    IF sh > 0 THEN c + sh * current_price * RateDen * RateDen
    ELSE IF sh < 0 THEN c + sh * current_price * RateDen * RateDen
    ELSE c

\* The Trade with quantity=shares instead of abs(shares)
ClosedTradeSigned(i, sh, execution_price) ==
    LET commission == Commission(sh, execution_price)
        pnl == IF sh > 0 THEN (execution_price - entry_price) * sh
                         ELSE (entry_price - execution_price) * Abs(sh)
    IN  [symbol |-> "ASSET",
         side |-> IF sh > 0 THEN "long" ELSE "short",
         entry_date |-> entry_idx,
         exit_date |-> i,
         entry_price |-> entry_price,
         exit_price |-> execution_price,
         quantity |-> sh,
         pnl |-> pnl * RateDen - commission,
         pnl_pct |-> <<(execution_price - entry_price) * Sign(sh), entry_price>>,
         commission |-> commission,
         holding_period |-> i - entry_idx]

\* The Trade appended when a position is closed at bar i
ClosedTrade(i, sh, execution_price) ==
    LET commission == Commission(sh, execution_price)
        pnl == IF sh > 0 THEN (execution_price - entry_price) * sh
                         ELSE (entry_price - execution_price) * Abs(sh)
    IN  [symbol |-> "ASSET",
         side |-> IF sh > 0 THEN "long" ELSE "short",
         entry_date |-> entry_idx,
         exit_date |-> i,
         entry_price |-> entry_price,
         exit_price |-> execution_price,
         quantity |-> Abs(sh),
         pnl |-> pnl * RateDen - commission,
         pnl_pct |-> <<(execution_price - entry_price) * Sign(sh), entry_price>>,
         commission |-> commission,
         holding_period |-> i - entry_idx]

NoLeg == [changed |-> FALSE, closed |-> 0, opened |-> 0, pre_value |-> 0,
          commission |-> 0, slippage |-> 0]

\* The body of `for i in range(1, n)` for bar i = bar + 1, with close[i] =
\* current_price, sig[i] = curr_signal and size_shares the shares the position
\* sizer answers if it is asked
RunBar(current_price, curr_signal, size_shares) ==
    LET i == bar + 1
        prev_signal == sig
        execution_price == ExecutionPrice(current_price, prev_signal, curr_signal)
        changed == curr_signal # prev_signal
        closing == changed /\ shares # 0
        cash1 == IF closing THEN CashAfterClose(cash, shares, execution_price) ELSE cash
        shares1 == IF closing THEN 0 ELSE shares
        opening == changed /\ curr_signal # 0
        shares2 == IF opening THEN OpenShares(curr_signal, size_shares, shares1)
                              ELSE shares1
        opened == opening /\ shares2 # 0
        cash2 == IF opened THEN CashAfterOpen(cash1, shares2, execution_price) ELSE cash1
        slip == execution_price - current_price * RateDen
    IN  /\ bar < MaxBars
        /\ bar' = i
        /\ sig' = curr_signal
        /\ close' = current_price
        /\ trades' = IF closing THEN Append(trades, ClosedTrade(i, shares, execution_price))
                                ELSE trades
        /\ cash' = cash2
        /\ shares' = shares2
        /\ entry_price' = IF opened THEN execution_price ELSE entry_price
        /\ entry_idx' = IF opened THEN i ELSE entry_idx
        /\ equity' = MarkToMarket(cash2, shares2, current_price)
        /\ leg' = [changed |-> changed,
                   closed |-> IF closing THEN shares ELSE 0,
                   opened |-> IF opened THEN shares2 ELSE 0,
                   pre_value |-> cash + shares * current_price * RateDen * RateDen,
                   commission |->
                       (IF closing THEN Commission(shares, execution_price) ELSE 0)
                       + (IF opened THEN Commission(shares2, execution_price) ELSE 0),
                   slippage |->
                       ((IF closing THEN -shares ELSE 0)
                        + (IF opened THEN shares2 ELSE 0)) * slip * RateDen]
        /\ UNCHANGED config

\* One bar: the sizer is consulted only when a position is to be opened
Bar ==
    \E current_price \in Prices, curr_signal \in Signals :
        IF curr_signal # sig /\ curr_signal # 0
        THEN \E size_shares \in SizerShares :
                 RunBar(current_price, curr_signal, size_shares)
        ELSE RunBar(current_price, curr_signal, 0)

---------------------------------------------------------------------------
(* RiskManager: limits, clock, results *)

(* Bounds of the risk-manager runs.  The three count limits of RiskLimits    *)
(* are configuration; the model runs them small so that they are reached.    *)
max_positions == 2               \* RiskLimits.max_positions of the runs
max_trades_per_day == 2          \* RiskLimits.max_trades_per_day of the runs
drawdown_cooldown_days == 1      \* RiskLimits.drawdown_cooldown_days of the runs
TicksPerDay == 1                 \* clock ticks in one calendar day
MaxTime == 2                     \* the clock stops here
MaxHist == 2                     \* update_equity calls in a run
MaxAdds == 3                     \* add_position calls in a run
PctDen == 100                    \* fractions of RiskLimits are in 1/PctDen

(* RiskLimits defaults, as fractions of PctDen *)
max_position_size == 10
max_sector_exposure == 30
max_drawdown == 15
max_daily_loss == 3
max_leverage == 100
stop_loss_pct == 2
trailing_stop_pct == 5
atr_stop_multiplier == 2

None == -1

RiskLimits(stop_type) ==
    [max_position_size |-> max_position_size,
     max_sector_exposure |-> max_sector_exposure,
     max_positions |-> max_positions,
     max_drawdown |-> max_drawdown,
     max_daily_loss |-> max_daily_loss,
     max_leverage |-> max_leverage,
     stop_loss_type |-> stop_type,
     stop_loss_pct |-> stop_loss_pct,
     trailing_stop_pct |-> trailing_stop_pct,
     atr_stop_multiplier |-> atr_stop_multiplier,
     max_trades_per_day |-> max_trades_per_day,
     drawdown_cooldown_days |-> drawdown_cooldown_days]

(* Inputs of the risk-manager runs *)
Symbols == {"AAPL", "MSFT", "XOM"}
Sectors == {"tech", "energy"}
ProposedValues == {5, 20}          \* check_all proposed_value
StopPrices == {2, 3}               \* add_position prices of the stop-loss runs
UpdatePrices == {0, 1, 2, 3, 4}    \* update_position_price prices
Callers == {"c1", "c2"}
HaltSymbols == {"AAPL"}            \* the symbol traded in the halt runs
HaltEquities == {85, 97, 100}      \* update_equity values of the halt runs
RuleEquities == {0, 85, 88, 100}   \* update_equity values of the rule-check runs
SerialEquities == {85}             \* update_equity values of the serialized runs
RaceValues == {5}                  \* proposed_value of the racing callers
StopSymbols == {"AAPL"}            \* the symbol held in the stop-loss runs

\* datetime.date()
Date(t) == t \div TicksPerDay

\* RiskAction / RiskCheckResult(action, reason); the numbers formatted into a
\* reason are left out of it
Result(action, reason) == [action |-> action, reason |-> reason]
Allow == Result("allow", "")
\* a ZeroDivisionError leaving the call instead of a result
Raised == Result("raise", "ZeroDivisionError")
NoResult == Result("none", "")

\* priority = {HALT_TRADING: 5, CLOSE_ALL: 4, REJECT: 3, REDUCE: 2, ALLOW: 1}
Priority(action) ==
    CASE action = "halt_trading" -> 5
      [] action = "close_all" -> 4
      [] action = "reject" -> 3
      [] action = "reduce" -> 2
      [] action = "allow" -> 1
      [] OTHER -> 0

RECURSIVE SumOver(_, _)
SumOver(S, f) ==
    IF S = {} THEN 0
    ELSE LET x == CHOOSE y \in S : TRUE IN f[x] + SumOver(S \ {x}, f)

Max2(a, b) == IF a >= b THEN a ELSE b
Min2(a, b) == IF a <= b THEN a ELSE b

NoPositions == [s \in {} |-> 0]

\* Position.market_value
MarketValue(pos) == Abs(pos.quantity) * pos.current_price

\* What a call leaves in `last`: the call, its arguments, whether the manager
\* was halted when it was made, what it returned and the rule results behind it
Call(op, symbol, value, sector, result, checks) ==
    [op |-> op, symbol |-> symbol, value |-> value, sector |-> sector,
     halted_before |-> is_halted, result |-> result, checks |-> checks]

---------------------------------------------------------------------------
(* RiskManager: the rule checks, as they read the manager's state *)

\* get_current_drawdown() >= pct / PctDen
DrawdownAtLeastStrict(pct, den) ==
    IF peak_equity = 0 THEN 0 > pct
    ELSE (peak_equity - current_capital) * den > pct * peak_equity

DrawdownAtLeast(pct, den) ==
    IF peak_equity = 0 THEN 0 >= pct
    ELSE (peak_equity - current_capital) * den >= pct * peak_equity

\* check_drawdown_limits: the result (its effect on the halt fields is in the
\* actions that call it)
DrawdownBreached == DrawdownAtLeast(limits.max_drawdown, PctDen)

CheckDrawdownLimits ==
    IF DrawdownBreached THEN Result("halt_trading", "Max drawdown breached")
    ELSE IF DrawdownAtLeast(limits.max_drawdown * 8, PctDen * 10)
         THEN Result("reduce", "Approaching max drawdown")
    ELSE Allow

\* get_daily_pnl: the equity of the latest entry before the last one whose
\* date is before today, None when there is none
RECURSIVE YesterdayClose(_)
YesterdayClose(k) ==
    IF k < 1 THEN None
    ELSE IF equity_history[k][1] < Date(now) THEN equity_history[k][2]
    ELSE YesterdayClose(k - 1)

PrevEquity ==
    IF Len(equity_history) < 2 THEN None
    ELSE YesterdayClose(Len(equity_history) - 1)

\* check_daily_loss_limit
CheckDailyLossLimit ==
    IF PrevEquity = None THEN Allow
    ELSE IF PrevEquity = 0 THEN Raised
    ELSE IF (current_capital - PrevEquity) * PctDen <= -limits.max_daily_loss * PrevEquity
         THEN Result("halt_trading", "Daily loss limit breached")
    ELSE Allow

\* check_position_limits
CheckPositionLimitsOffByOne(symbol, proposed_value) ==
    IF current_capital = 0 THEN Raised
    ELSE IF proposed_value * PctDen > limits.max_position_size * current_capital
         THEN Result("reduce", "Position size exceeds limit")
    ELSE IF Cardinality(DOMAIN positions) > limits.max_positions
            /\ symbol \notin DOMAIN positions
         THEN Result("reject", "Max positions reached")
    ELSE Allow

CheckPositionLimits(symbol, proposed_value) ==
    IF current_capital = 0 THEN Raised
    ELSE IF proposed_value * PctDen > limits.max_position_size * current_capital
         THEN Result("reduce", "Position size exceeds limit")
    ELSE IF Cardinality(DOMAIN positions) >= limits.max_positions
            /\ symbol \notin DOMAIN positions
         THEN Result("reject", "Max positions reached")
    ELSE Allow

\* check_sector_exposure
CheckSectorExposure(sector, proposed_value) ==
    LET held == {s \in DOMAIN positions : positions[s].sector = sector}
        sector_exposure == SumOver(held, [s \in held |-> MarketValue(positions[s])])
    IN  IF current_capital = 0 THEN Raised
        ELSE IF (sector_exposure + proposed_value) * PctDen
                    > limits.max_sector_exposure * current_capital
             THEN Result("reduce", "Sector exposure exceeds limit")
        ELSE Allow

\* check_leverage
CheckLeverage ==
    LET open == DOMAIN positions
        total_exposure == SumOver(open, [s \in open |-> MarketValue(positions[s])])
    IN  IF current_capital = 0 THEN Raised
        ELSE IF total_exposure * PctDen > limits.max_leverage * current_capital
             THEN Result("reduce", "Leverage exceeds limit")
        ELSE Allow

\* check_trade_frequency: the counter after the reset at a new date, and the result
TradesToday == IF last_trade_date # Date(now) THEN 0 ELSE daily_trades

CheckTradeFrequency ==
    IF TradesToday >= limits.max_trades_per_day
    THEN Result("reject", "Daily trade limit reached")
    ELSE Allow

\* checks = [...]: the six results in the order check_all builds the list
Battery(symbol, proposed_value, sector) ==
    <<CheckDrawdownLimits,
      CheckDailyLossLimit,
      CheckPositionLimits(symbol, proposed_value),
      CheckSectorExposure(sector, proposed_value),
      CheckLeverage,
      CheckTradeFrequency>>

\* The first check that raises, 0 when none does
RECURSIVE FirstRaise(_, _)
FirstRaise(checks, k) ==
    IF k > Len(checks) THEN 0
    ELSE IF checks[k] = Raised THEN k
    ELSE FirstRaise(checks, k + 1)

\* max(checks, key=lambda x: priority[x.action]): the first result of the
\* highest priority
MostRestrictiveFirst(checks) == checks[1]

MostRestrictive(checks) ==
    LET top == CHOOSE k \in 1..Len(checks) :
                   /\ \A j \in 1..Len(checks) :
                          Priority(checks[j].action) <= Priority(checks[k].action)
                   /\ \A j \in 1..(k - 1) :
                          Priority(checks[j].action) < Priority(checks[k].action)
    IN  checks[top]

\* `self.cooldown_until and datetime.now() >= self.cooldown_until`
CooldownOverLate == cooldown_until # None /\ now > cooldown_until

CooldownOver == cooldown_until # None /\ now >= cooldown_until

---------------------------------------------------------------------------
(* RiskManager: the operations *)

\* Time passes between two calls
Tick ==
    /\ now < MaxTime
    /\ now' = now + 1
    /\ adds_today' = IF Date(now + 1) # Date(now) THEN 0 ELSE adds_today
    /\ last' = Call("tick", "", 0, "", NoResult, <<>>)
    /\ UNCHANGED <<limits, current_capital, peak_equity, positions, equity_history,
                   trade_history, daily_trades, last_trade_date, is_halted,
                   halt_reason, cooldown_until, seen, adds, callers>>
    /\ UNCHANGED <<engineVars, sizerVars, rerunVars, reportVars>>

\* update_equity(timestamp, equity), called with the current time
UpdateEquity(eq) ==
    /\ Len(equity_history) < MaxHist
    /\ equity_history' = Append(equity_history, <<Date(now), eq>>)
    /\ current_capital' = eq
    /\ peak_equity' = IF eq > peak_equity THEN eq ELSE peak_equity
    /\ last' = Call("update_equity", "", 0, "", NoResult, <<>>)
    /\ UNCHANGED <<limits, positions, trade_history, daily_trades, last_trade_date,
                   is_halted, halt_reason, cooldown_until, now, seen, adds, adds_today, callers>>
    /\ UNCHANGED <<engineVars, sizerVars, rerunVars, reportVars>>

\* check_drawdown_limits setting the halt without its deadline
HaltFieldsNoDeadline(h, r, c) ==
    IF DrawdownBreached
    THEN <<TRUE, "Max drawdown breached", c>>
    ELSE <<h, r, c>>

\* The halt fields after check_drawdown_limits has run on fields (h, r, c)
HaltFields(h, r, c) ==
    IF DrawdownBreached
    THEN <<TRUE, "Max drawdown breached",
           now + limits.drawdown_cooldown_days * TicksPerDay>>
    ELSE <<h, r, c>>

\* check_drawdown_limits(), called by itself
CallCheckDrawdownLimits ==
    LET f == HaltFields(is_halted, halt_reason, cooldown_until)
    IN  /\ is_halted' = f[1]
        /\ halt_reason' = f[2]
        /\ cooldown_until' = f[3]
        /\ last' = Call("check_drawdown_limits", "", 0, "", CheckDrawdownLimits, <<>>)
        /\ UNCHANGED <<limits, current_capital, peak_equity, positions,
                       equity_history, trade_history, daily_trades, last_trade_date,
                       now, seen, adds, adds_today, callers>>
        /\ UNCHANGED <<engineVars, sizerVars, rerunVars, reportVars>>

\* What check_all(symbol, proposed_value, sector) does to a manager whose halt
\* fields are (h, r, c) and what it returns: [halt, trades, date, result,
\* checks], halt the three halt fields.  A check that raises ends the call: the
\* checks after it do not run.
CheckAllOn(h, r, c, symbol, proposed_value, sector) ==
    IF h /\ ~CooldownOver
    THEN [halt |-> <<h, r, c>>,
          trades |-> daily_trades,
          date |-> last_trade_date,
          result |-> Result("halt_trading", r),
          checks |-> <<>>]
    ELSE LET reset == IF h THEN <<FALSE, "", None>> ELSE <<h, r, c>>
             checks == Battery(symbol, proposed_value, sector)
             raise == FirstRaise(checks, 1)
         IN  [halt |-> HaltFields(reset[1], reset[2], reset[3]),
              trades |-> IF raise = 0 THEN TradesToday ELSE daily_trades,
              date |-> IF raise = 0 THEN Date(now) ELSE last_trade_date,
              result |-> IF raise = 0 THEN MostRestrictive(checks) ELSE Raised,
              checks |-> IF raise = 0 THEN checks ELSE SubSeq(checks, 1, raise)]

CheckAllOutcome(symbol, proposed_value, sector) ==
    CheckAllOn(is_halted, halt_reason, cooldown_until, symbol, proposed_value, sector)

\* check_all(symbol, proposed_value, sector)
CheckAll(symbol, proposed_value, sector) ==
    \E out \in {CheckAllOutcome(symbol, proposed_value, sector)} :
        /\ is_halted' = out.halt[1]
        /\ halt_reason' = out.halt[2]
        /\ cooldown_until' = out.halt[3]
        /\ daily_trades' = out.trades
        /\ last_trade_date' = out.date
        /\ last' = Call("check_all", symbol, proposed_value, sector,
                        out.result, out.checks)
        /\ UNCHANGED <<limits, current_capital, peak_equity, positions,
                       equity_history, trade_history, now, seen, adds, adds_today, callers>>
        /\ UNCHANGED <<engineVars, sizerVars, rerunVars, reportVars>>

\* check_trade_frequency(), called by itself
CallCheckTradeFrequency ==
    /\ daily_trades' = TradesToday
    /\ last_trade_date' = Date(now)
    /\ last' = Call("check_trade_frequency", "", 0, "", CheckTradeFrequency, <<>>)
    /\ UNCHANGED <<limits, current_capital, peak_equity, positions, equity_history,
                   trade_history, is_halted, halt_reason, cooldown_until, now,
                   seen, adds, adds_today, callers>>
    /\ UNCHANGED <<engineVars, sizerVars, rerunVars, reportVars>>

\* calculate_stop_loss(entry_price, side, atr), in 1/PctDen ticks
CalculateStopLoss(price, side, atr) ==
    IF limits.stop_loss_type = "fixed"
    THEN IF side = "long" THEN price * (PctDen - limits.stop_loss_pct)
                          ELSE price * (PctDen + limits.stop_loss_pct)
    ELSE IF limits.stop_loss_type = "atr" /\ atr # None
    THEN IF side = "long" THEN (price - atr * limits.atr_stop_multiplier) * PctDen
                          ELSE (price + atr * limits.atr_stop_multiplier) * PctDen
    ELSE IF side = "long" THEN price * (PctDen - limits.stop_loss_pct)
                          ELSE price * (PctDen + limits.stop_loss_pct)

\* Position(...) as add_position builds it; __post_init__ sets peak_price.
\* The timestamps of a position (entry_date) are not modelled: no check reads them.
NewPosition(symbol, quantity, price, side, sector, atr) ==
    [symbol |-> symbol, quantity |-> quantity, entry_price |-> price,
     current_price |-> price, side |-> side, sector |-> sector,
     stop_loss |-> CalculateStopLoss(price, side, atr), peak_price |-> price]

\* self.positions[symbol] = Position(...)
PositionsWithGuarded(symbol, pos) ==
    IF symbol \notin DOMAIN positions
       /\ Cardinality(DOMAIN positions) >= limits.max_positions
    THEN positions
    ELSE [s \in DOMAIN positions \cup {symbol} |->
              IF s = symbol THEN pos ELSE positions[s]]

PositionsWith(symbol, pos) ==
    [s \in DOMAIN positions \cup {symbol} |-> IF s = symbol THEN pos ELSE positions[s]]

\* The effect of add_position on the manager's own fields
AddPositionEffect(symbol, quantity, price, side, sector, atr) ==
    /\ positions' = PositionsWith(symbol,
                        NewPosition(symbol, quantity, price, side, sector, atr))
    /\ seen' = [s \in DOMAIN positions' |-> IF s = symbol THEN {price} ELSE seen[s]]

\* add_position(symbol, quantity, price, side, sector, atr)
AddPosition(symbol, quantity, price, side, sector, atr) ==
    /\ adds < MaxAdds
    /\ AddPositionEffect(symbol, quantity, price, side, sector, atr)
    /\ daily_trades' = daily_trades + 1
    /\ adds' = adds + 1
    /\ adds_today' = adds_today + 1
    /\ last' = Call("add_position", "", 0, "", NoResult, <<>>)
    /\ UNCHANGED <<limits, current_capital, peak_equity, equity_history,
                   trade_history, last_trade_date, is_halted, halt_reason,
                   cooldown_until, now, callers>>
    /\ UNCHANGED <<engineVars, sizerVars, rerunVars, reportVars>>

\* update_trailing_stop(position), position.peak_price already updated:
\* the stop it returns
UpdateTrailingStopLoose(pos) ==
    IF pos.side = "long" THEN pos.peak_price * (PctDen - limits.trailing_stop_pct)
    ELSE pos.peak_price * (PctDen + limits.trailing_stop_pct)

UpdateTrailingStop(pos) ==
    IF pos.side = "long"
    THEN LET new_stop == pos.peak_price * (PctDen - limits.trailing_stop_pct)
         IN  IF pos.stop_loss # None /\ pos.stop_loss # 0
             THEN Max2(new_stop, pos.stop_loss) ELSE new_stop
    ELSE LET new_stop == pos.peak_price * (PctDen + limits.trailing_stop_pct)
         IN  IF pos.stop_loss # None /\ pos.stop_loss # 0
             THEN Min2(new_stop, pos.stop_loss) ELSE new_stop

\* The position after update_position_price(symbol, price)
PositionAtPrice(pos, price) ==
    LET priced == [pos EXCEPT !.current_price = price]
        peaked == [priced EXCEPT !.peak_price =
                       IF pos.side = "long" THEN Max2(pos.peak_price, price)
                                            ELSE Min2(pos.peak_price, price)]
    IN  IF limits.stop_loss_type = "trailing"
        THEN [peaked EXCEPT !.stop_loss = UpdateTrailingStop(peaked)]
        ELSE priced

\* update_position_price(symbol, price)
UpdatePositionPrice(symbol, price) ==
    /\ positions' = IF symbol \in DOMAIN positions
                    THEN [positions EXCEPT ![symbol] = PositionAtPrice(@, price)]
                    ELSE positions
    /\ seen' = IF symbol \in DOMAIN positions
               THEN [seen EXCEPT ![symbol] = @ \cup {price}]
               ELSE seen
    /\ last' = Call("update_position_price", symbol, price, "", NoResult, <<>>)
    /\ UNCHANGED <<limits, current_capital, peak_equity, equity_history,
                   trade_history, daily_trades, last_trade_date, is_halted,
                   halt_reason, cooldown_until, now, adds, adds_today, callers>>
    /\ UNCHANGED <<engineVars, sizerVars, rerunVars, reportVars>>

\* Position.unrealized_pnl
UnrealizedPnl(pos) ==
    IF pos.side = "long" THEN (pos.current_price - pos.entry_price) * pos.quantity
    ELSE (pos.entry_price - pos.current_price) * Abs(pos.quantity)

\* Position.unrealized_pnl_pct, as <<numerator, denominator>>
UnrealizedPnlPct(pos) ==
    IF pos.side = "long" THEN <<pos.current_price - pos.entry_price, pos.entry_price>>
    ELSE <<pos.entry_price - pos.current_price, pos.current_price>>

\* close_position(symbol, price); the dates of the record are not modelled
ClosePosition(symbol, price) ==
    /\ IF symbol \notin DOMAIN positions
       THEN UNCHANGED <<positions, trade_history, seen>>
       ELSE LET pos == positions[symbol]
            IN  /\ trade_history' = Append(trade_history,
                       [symbol |-> symbol, side |-> pos.side,
                        entry_price |-> pos.entry_price, exit_price |-> price,
                        quantity |-> pos.quantity, pnl |-> UnrealizedPnl(pos),
                        pnl_pct |-> UnrealizedPnlPct(pos)])
                /\ positions' = [s \in DOMAIN positions \ {symbol} |-> positions[s]]
                /\ seen' = [s \in DOMAIN positions \ {symbol} |-> seen[s]]
    /\ last' = Call("close_position", "", 0, "", NoResult, <<>>)
    /\ UNCHANGED <<limits, current_capital, peak_equity, equity_history,
                   daily_trades, last_trade_date, is_halted, halt_reason,
                   cooldown_until, now, adds, adds_today, callers>>
    /\ UNCHANGED <<engineVars, sizerVars, rerunVars, reportVars>>

\* The test of check_stop_losses on one position, `<` where the code has `<=`
StopCrossedStrict(pos) ==
    /\ pos.stop_loss # None
    /\ \/ pos.side = "long" /\ pos.current_price * PctDen < pos.stop_loss
       \/ pos.side = "short" /\ pos.current_price * PctDen > pos.stop_loss

\* The test of check_stop_losses on one position: it has a stop and its
\* current price is at or beyond it
StopCrossed(pos) ==
    /\ pos.stop_loss # None
    /\ \/ pos.side = "long" /\ pos.current_price * PctDen <= pos.stop_loss
       \/ pos.side = "short" /\ pos.current_price * PctDen >= pos.stop_loss

\* check_stop_losses(): the symbols triggered (their order in the list, that
\* of the dict, is not modelled); no field of the manager is assigned
CheckStopLosses ==
    /\ last' = Call("check_stop_losses", "", 0, "",
                    [action |-> "triggered", reason |-> "",
                     symbols |-> {s \in DOMAIN positions : StopCrossed(positions[s])}],
                    <<>>)
    /\ UNCHANGED <<limits, current_capital, peak_equity, positions, equity_history,
                   trade_history, daily_trades, last_trade_date, is_halted,
                   halt_reason, cooldown_until, now, seen, adds, adds_today, callers>>
    /\ UNCHANGED <<engineVars, sizerVars, rerunVars, reportVars>>

---------------------------------------------------------------------------
(* Callers of the risk manager (a live runner) *)

\* The price add_position is given for a symbol in the rule-check runs
BookPrice(symbol) == IF symbol = "AAPL" THEN 60 ELSE 5

SectorOf(symbol) == IF symbol = "XOM" THEN "energy" ELSE "tech"

\* A serialized caller: check_all, and add_position when it answered Allow,
\* as one step.  The position is one unit bought at the proposed value.
SerialTrade(symbol, proposed_value, sector) ==
    \E out \in {CheckAllOutcome(symbol, proposed_value, sector)} :
    LET allowed == out.result.action = "allow"
    IN  /\ allowed => adds < MaxAdds
        /\ is_halted' = out.halt[1]
        /\ halt_reason' = out.halt[2]
        /\ cooldown_until' = out.halt[3]
        /\ last_trade_date' = out.date
        /\ IF allowed
           THEN /\ AddPositionEffect(symbol, 1, proposed_value, "long", sector, None)
                /\ daily_trades' = out.trades + 1
                /\ adds' = adds + 1
                /\ adds_today' = adds_today + 1
           ELSE /\ daily_trades' = out.trades
                /\ UNCHANGED <<positions, seen, adds, adds_today>>
        /\ last' = Call("trade", symbol, proposed_value, sector, out.result, out.checks)
        /\ UNCHANGED <<limits, current_capital, peak_equity, equity_history,
                       trade_history, now, callers>>
        /\ UNCHANGED <<engineVars, sizerVars, rerunVars, reportVars>>

IdleCaller == [pc |-> "idle", symbol |-> "", value |-> 0, sector |-> "",
               result |-> NoResult, slot_check |-> NoResult, free |-> 0,
               new |-> FALSE, adds |-> 0]

\* An unserialized caller, first step: check_all; the caller keeps the answer
CallerCheck(c, symbol, proposed_value, sector) ==
    \E out \in {CheckAllOutcome(symbol, proposed_value, sector)} :
        /\ callers[c].pc \in {"idle", "added"}
        /\ is_halted' = out.halt[1]
        /\ halt_reason' = out.halt[2]
        /\ cooldown_until' = out.halt[3]
        /\ daily_trades' = out.trades
        /\ last_trade_date' = out.date
        /\ callers' = [callers EXCEPT ![c] =
               [pc |-> "checked", symbol |-> symbol, value |-> proposed_value,
                sector |-> sector, result |-> out.result,
                slot_check |-> IF Len(out.checks) >= 3 THEN out.checks[3]
                               ELSE NoResult,
                free |-> limits.max_positions - Cardinality(DOMAIN positions),
                new |-> symbol \notin DOMAIN positions,
                adds |-> adds]]
        /\ last' = Call("check_all", symbol, proposed_value, sector,
                        out.result, out.checks)
        /\ UNCHANGED <<limits, current_capital, peak_equity, positions,
                       equity_history, trade_history, now, seen, adds,
                       adds_today>>
        /\ UNCHANGED <<engineVars, sizerVars, rerunVars, reportVars>>

\* An unserialized caller, second step: add_position if the answer was Allow
CallerAdd(c) ==
    /\ callers[c].pc = "checked"
    /\ callers' = [callers EXCEPT ![c].pc = "added"]
    /\ IF callers[c].result.action = "allow"
       THEN /\ adds < MaxAdds
            /\ AddPositionEffect(callers[c].symbol, 1, callers[c].value, "long",
                                 callers[c].sector, None)
            /\ daily_trades' = daily_trades + 1
            /\ adds' = adds + 1
            /\ adds_today' = adds_today + 1
            /\ last' = Call("add_position", "", 0, "", NoResult, <<>>)
       ELSE /\ last' = Call("skip", "", 0, "", NoResult, <<>>)
            /\ UNCHANGED <<positions, seen, daily_trades, adds, adds_today>>
    /\ UNCHANGED <<limits, current_capital, peak_equity, equity_history,
                   trade_history, last_trade_date, is_halted, halt_reason,
                   cooldown_until, now>>
    /\ UNCHANGED <<engineVars, sizerVars, rerunVars, reportVars>>

---------------------------------------------------------------------------
(* Position sizers (risk/position_sizer.py).  The sizers compute in floats;  *)
(* the model computes the same expressions exactly, in fractions             *)
(* <<numerator, denominator>> kept in lowest terms with denominator > 0.     *)

RECURSIVE GCD(_, _)
GCD(a, b) == IF b = 0 THEN a ELSE GCD(b, a % b)

Frac(n, d) ==
    LET g == GCD(Abs(n), Abs(d))
        s == IF d < 0 THEN -1 ELSE 1
    IN  <<(s * n) \div g, (s * d) \div g>>

Zero == <<0, 1>>
One == <<1, 1>>
Whole(n) == <<n, 1>>
FracAdd(a, b) ==
    LET g == GCD(a[2], b[2])
    IN  Frac(a[1] * (b[2] \div g) + b[1] * (a[2] \div g), (a[2] \div g) * b[2])
FracSub(a, b) ==
    LET g == GCD(a[2], b[2])
    IN  Frac(a[1] * (b[2] \div g) - b[1] * (a[2] \div g), (a[2] \div g) * b[2])
FracMul(a, b) ==
    LET g == GCD(Abs(a[1]), b[2])
        h == GCD(Abs(b[1]), a[2])
    IN  Frac((a[1] \div g) * (b[1] \div h), (a[2] \div h) * (b[2] \div g))
FracDiv(a, b) ==                                     \* b # Zero
    LET g == GCD(Abs(a[1]), Abs(b[1]))
        h == GCD(a[2], b[2])
    IN  Frac((a[1] \div g) * (b[2] \div h), (a[2] \div h) * (b[1] \div g))
FracLe(a, b) == a[1] * b[2] <= b[1] * a[2]
FracLt(a, b) == a[1] * b[2] < b[1] * a[2]
FracMin(a, b) == IF FracLe(b, a) THEN b ELSE a
FracMax(a, b) == IF FracLt(a, b) THEN b ELSE a

\* A keyword argument that is not given (its default applies)
NoArg == <<0, 0>>

\* PositionSize(...)
PositionSize(n_shares, dollar_value, weight, risk_amount, position_type, reason) ==
    [shares |-> n_shares, dollar_value |-> dollar_value, weight |-> weight,
     risk_amount |-> risk_amount, position_type |-> position_type, reason |-> reason]

\* calculate_size raised ZeroDivisionError: no PositionSize is returned
RaisedSize == PositionSize(Zero, Zero, Zero, Zero, "raise", "ZeroDivisionError")

\* No calculate_size call made since the sizer last changed
NoCall == [capital |-> 0, price |-> 0, signal_strength |-> Zero, kwarg |-> NoArg,
           result |-> PositionSize(Zero, Zero, Zero, Zero, "none", "")]

(* KellyCriterion *)

MaxTrades == 10                    \* update_stats calls of a run
min_trades == 30                   \* KellyCriterion.__init__ default

\* KellyCriterion(kelly_fraction, max_position, min_trades)
KellyCriterion(kelly_fraction, max_position, min_trades_) ==
    [class |-> "KellyCriterion", kelly_fraction |-> kelly_fraction,
     max_position |-> max_position, min_trades |-> min_trades_,
     wins |-> 0, losses |-> 0, total_win |-> 0, total_loss |-> 0]

\* update_stats(pnl): the sizer afterwards
StatsWith(k, pnl) ==
    IF pnl > 0
    THEN [k EXCEPT !.wins = @ + 1, !.total_win = @ + pnl]
    ELSE [k EXCEPT !.losses = @ + 1, !.total_loss = @ + Abs(pnl)]

\* update_stats(pnl)
UpdateStats(pnl) ==
    /\ sizer.class = "KellyCriterion"
    /\ sizer.wins + sizer.losses < MaxTrades
    /\ sizer' = StatsWith(sizer, pnl)
    /\ sized' = NoCall
    /\ UNCHANGED <<engineVars, managerVars, rerunVars, reportVars>>

\* What calculate_kelly returns: [raised, pct, reason]
KellyResult(pct, reason) == [raised |-> FALSE, pct |-> pct, reason |-> reason]
KellyRaised == [raised |-> TRUE, pct |-> Zero, reason |-> "ZeroDivisionError"]

\* calculate_kelly()
CalculateKelly(k) ==
    LET total_trades == k.wins + k.losses
        win_rate == Frac(k.wins, total_trades)
        avg_win == Frac(k.total_win, Max2(1, k.wins))
        avg_loss == Frac(k.total_loss, Max2(1, k.losses))
        win_loss_ratio == FracDiv(avg_win, avg_loss)
        kelly == FracSub(win_rate, FracDiv(FracSub(One, win_rate), win_loss_ratio))
    IN  IF total_trades < k.min_trades
        THEN KellyResult(<<1, 50>>, "Insufficient trades")
        ELSE IF total_trades = 0 THEN KellyRaised
        ELSE IF k.losses = 0 THEN KellyResult(k.max_position, "No losses recorded")
        ELSE IF avg_loss = Zero THEN KellyRaised
        ELSE IF win_loss_ratio = Zero THEN KellyRaised
        ELSE IF FracLe(kelly, Zero) THEN KellyResult(Zero, "Negative Kelly")
        ELSE KellyResult(FracMin(FracMul(kelly, k.kelly_fraction), k.max_position), "")

\* KellyCriterion.calculate_size(capital, price, signal_strength)
KellySize(k, capital, price, signal_strength) ==
    LET kelly == CalculateKelly(k)
        position_value == FracMul(FracMul(Whole(capital), kelly.pct), signal_strength)
    IN  IF kelly.raised THEN RaisedSize
        ELSE IF FracLe(kelly.pct, Zero)
        THEN PositionSize(Zero, Zero, Zero, Zero, "rejected", kelly.reason)
        ELSE IF price = 0 \/ capital = 0 THEN RaisedSize
        ELSE PositionSize(FracDiv(position_value, Whole(price)),
                          position_value,
                          FracDiv(position_value, Whole(capital)),
                          FracMul(position_value, <<1, 50>>),
                          IF kelly.reason = "" THEN "full" ELSE "reduced",
                          kelly.reason)

(* FixedFractionalSizer *)

\* FixedFractionalSizer(fraction, max_position)
FixedFractionalSizer(fraction, max_position) ==
    [class |-> "FixedFractionalSizer", fraction |-> fraction,
     max_position |-> max_position]

\* FixedFractionalSizer.calculate_size capping at the limit itself
FixedFractionalSizeEager(z, capital, price, signal_strength, stop_loss_pct_) ==
    LET stop == IF stop_loss_pct_ = NoArg THEN <<1, 50>> ELSE stop_loss_pct_
        risk_amount == FracMul(FracMul(Whole(capital), z.fraction), signal_strength)
        uncapped == FracDiv(risk_amount, stop)
        max_value == FracMul(Whole(capital), z.max_position)
        capped == FracLe(max_value, uncapped)
        position_value == IF capped THEN max_value ELSE uncapped
    IN  IF stop = Zero \/ price = 0 \/ capital = 0 THEN RaisedSize
        ELSE PositionSize(FracDiv(position_value, Whole(price)),
                          position_value,
                          FracDiv(position_value, Whole(capital)),
                          risk_amount,
                          IF capped THEN "reduced" ELSE "full",
                          IF capped THEN "Capped at max position" ELSE "")

\* FixedFractionalSizer.calculate_size(capital, price, signal_strength, stop_loss_pct)
FixedFractionalSize(z, capital, price, signal_strength, stop_loss_pct_) ==
    LET stop == IF stop_loss_pct_ = NoArg THEN <<1, 50>> ELSE stop_loss_pct_
        risk_amount == FracMul(FracMul(Whole(capital), z.fraction), signal_strength)
        uncapped == FracDiv(risk_amount, stop)
        max_value == FracMul(Whole(capital), z.max_position)
        capped == FracLt(max_value, uncapped)
        position_value == IF capped THEN max_value ELSE uncapped
    IN  IF stop = Zero \/ price = 0 \/ capital = 0 THEN RaisedSize
        ELSE PositionSize(FracDiv(position_value, Whole(price)),
                          position_value,
                          FracDiv(position_value, Whole(capital)),
                          risk_amount,
                          IF capped THEN "reduced" ELSE "full",
                          IF capped THEN "Capped at max position" ELSE "")

(* VolatilityTargeting *)

\* VolatilityTargeting(target_volatility, max_leverage)
VolatilityTargeting(target_volatility, max_leverage_) ==
    [class |-> "VolatilityTargeting", target_volatility |-> target_volatility,
     max_leverage |-> max_leverage_]

\* VolatilityTargeting.calculate_size(capital, price, signal_strength,
\* current_volatility), without a returns series.  risk_amount is
\* position_value * vol / sqrt(252): the model keeps position_value * vol.
VolatilityTargetingSize(z, capital, price, signal_strength, current_volatility) ==
    LET given == IF current_volatility = NoArg THEN <<1, 5>> ELSE current_volatility
        vol == FracMax(given, <<1, 100>>)
        vol_scalar == FracMin(FracDiv(z.target_volatility, vol), z.max_leverage)
        position_value == FracMul(FracMul(Whole(capital), vol_scalar), signal_strength)
        capped == FracLe(z.max_leverage, vol_scalar)
    IN  IF price = 0 THEN RaisedSize
        ELSE PositionSize(FracDiv(position_value, Whole(price)),
                          position_value,
                          FracMul(vol_scalar, signal_strength),
                          FracMul(position_value, vol),
                          IF capped THEN "reduced" ELSE "full",
                          IF capped THEN "Leverage capped" ELSE "")

(* RiskParity *)

RiskParity == [class |-> "RiskParity"]

\* RiskParity.calculate_size(capital, price, signal_strength, asset_weight)
RiskParitySize(z, capital, price, signal_strength, asset_weight) ==
    LET weight == IF asset_weight = NoArg THEN <<1, 10>> ELSE asset_weight
        position_value == FracMul(FracMul(Whole(capital), weight), signal_strength)
    IN  IF price = 0 THEN RaisedSize
        ELSE PositionSize(FracDiv(position_value, Whole(price)),
                          position_value,
                          FracMul(weight, signal_strength),
                          FracMul(position_value, <<1, 50>>),
                          "full", "")

(* ATRPositionSizer *)

\* ATRPositionSizer(risk_per_trade, atr_multiplier, max_position)
ATRPositionSizer(risk_per_trade, atr_multiplier, max_position) ==
    [class |-> "ATRPositionSizer", risk_per_trade |-> risk_per_trade,
     atr_multiplier |-> atr_multiplier, max_position |-> max_position]

\* ATRPositionSizer.calculate_size(capital, price, signal_strength, atr),
\* without OHLC data
ATRSize(z, capital, price, signal_strength, atr) ==
    LET range == IF atr = NoArg THEN FracMul(Whole(price), <<1, 50>>) ELSE atr
        stop_distance == FracMul(range, z.atr_multiplier)
        risk_amount == FracMul(FracMul(Whole(capital), z.risk_per_trade),
                               signal_strength)
        uncapped == FracMul(FracDiv(risk_amount, stop_distance), Whole(price))
        max_value == FracMul(Whole(capital), z.max_position)
        capped == FracLt(max_value, uncapped)
        position_value == IF capped THEN max_value ELSE uncapped
    IN  IF stop_distance = Zero \/ price = 0 \/ capital = 0 THEN RaisedSize
        ELSE PositionSize(FracDiv(position_value, Whole(price)),
                          position_value,
                          FracDiv(position_value, Whole(capital)),
                          risk_amount,
                          IF capped THEN "reduced" ELSE "full",
                          IF capped THEN "Capped" ELSE "")

(* Any sizer *)

\* position_sizer.calculate_size(capital, price, signal_strength, <kwarg>), the
\* keyword argument being the one the sizer's class reads
SizeOf(z, capital, price, signal_strength, kwarg) ==
    CASE z.class = "FixedFractionalSizer" ->
             FixedFractionalSize(z, capital, price, signal_strength, kwarg)
      [] z.class = "KellyCriterion" ->
             KellySize(z, capital, price, signal_strength)
      [] z.class = "VolatilityTargeting" ->
             VolatilityTargetingSize(z, capital, price, signal_strength, kwarg)
      [] z.class = "RiskParity" ->
             RiskParitySize(z, capital, price, signal_strength, kwarg)
      [] z.class = "ATRPositionSizer" ->
             ATRSize(z, capital, price, signal_strength, kwarg)

\* calculate_size(capital, price, signal_strength, <kwarg>)
CalculateSize(capital, price, signal_strength, kwarg) ==
    /\ sized' = [capital |-> capital, price |-> price,
                 signal_strength |-> signal_strength, kwarg |-> kwarg,
                 result |-> SizeOf(sizer, capital, price, signal_strength, kwarg)]
    /\ UNCHANGED sizer
    /\ UNCHANGED <<engineVars, managerVars, rerunVars, reportVars>>

(* Inputs of the sizer runs *)
Capitals == {0, 100, 100000}
SizerPrices == {4, 150}
SignalStrengths == {Zero, <<1, 2>>, One}
PnLs == {-1, 0, 2}                      \* update_stats arguments
MinTrades == {min_trades, MaxTrades, 2} \* KellyCriterion min_trades
KellyFractions == {<<1, 4>>, Zero}      \* KellyCriterion kelly_fraction

\* The values of the keyword argument a sizer of the class reads
Kwargs(class) ==
    CASE class = "FixedFractionalSizer" -> {NoArg, <<1, 5>>}        \* stop_loss_pct
      [] class = "KellyCriterion" -> {NoArg}
      [] class = "VolatilityTargeting" -> {NoArg, <<1, 10>>, <<1, 20>>, Zero}
      [] class = "RiskParity" -> {NoArg, <<1, 2>>, <<3, 2>>}        \* asset_weight
      [] class = "ATRPositionSizer" -> {NoArg, One, <<1, 100>>}     \* atr

\* The sizers of the runs, as constructed
Sizers ==
    {FixedFractionalSizer(<<1, 50>>, <<1, 10>>),
     FixedFractionalSizer(<<1, 20>>, <<1, 2>>),
     VolatilityTargeting(<<3, 20>>, Whole(2)),
     RiskParity,
     ATRPositionSizer(<<1, 100>>, Whole(2), <<1, 10>>)}
    \cup {KellyCriterion(f, <<1, 5>>, m) : f \in KellyFractions, m \in MinTrades}

\* No run before this one, and the bars of this one not recorded
NoRun == [done |-> FALSE, sig |-> 0, close |-> 0, commission |-> 0,
          history |-> <<>>, trades |-> <<>>]

\* No calculate_metrics call made, run() not returned, no analysis started
NoMeasure == [status |-> "none"]
NoBacktest == [status |-> "none"]
NoWalk == [status |-> "none"]
NoMonte == [status |-> "none"]
NoMulti == [status |-> "none"]

InitNoReport ==
    /\ measured = NoMeasure
    /\ backtest = NoBacktest
    /\ walk = NoWalk
    /\ monte = NoMonte
    /\ multi = NoMulti

\* The sizer the engine is given by default, before any call; a single run
InitIdleSizer ==
    /\ sizer = FixedFractionalSizer(<<1, 50>>, <<1, 10>>)
    /\ sized = NoCall
    /\ history = <<>>
    /\ first = NoRun

InitNoSizer == InitIdleSizer /\ InitNoReport

---------------------------------------------------------------------------
(* Two runs of one BacktestEngine on the same bars, signals, config and sizer *)

RerunSignals == {-2, 0, 2}         \* the signals of the two-run runs
RerunShares == {1, 3}              \* size.shares there, in 1/ShareScale shares

\* The locals _run_vectorized sets before its loop: nothing of an earlier run
StartLocalsKept ==
    [cash |-> cash, shares |-> shares, entry_price |-> entry_price,
     entry_idx |-> entry_idx, trades |-> <<>>]

StartLocals ==
    [cash |-> config.initial_capital * MoneyScale, shares |-> 0, entry_price |-> 0,
     entry_idx |-> 0, trades |-> <<>>]

\* capital = cash as position_sizer.calculate_size is given it at this bar
SizerCapital(current_price, curr_signal) ==
    IF curr_signal # sig /\ shares # 0
    THEN CashAfterClose(cash, shares, ExecutionPrice(current_price, sig, curr_signal))
    ELSE cash

\* The position_history entry of the bar just run, with what the bar was given
HistoryEntry(current_price, curr_signal, asked, capital, size_shares) ==
    [close |-> current_price, sig |-> curr_signal, asked |-> asked,
     capital |-> capital, size |-> size_shares,
     shares |-> shares', cash |-> cash', equity |-> equity']

\* One recorded bar of an engine that asks its risk manager before opening:
\* no position once the ledger has reached max_trades_per_day
RecordedBarPermitted(current_price, curr_signal, size_shares) ==
    LET asked == curr_signal # sig /\ curr_signal # 0
        permitted == Len(trades) < limits.max_trades_per_day
    IN  /\ RunBar(current_price, curr_signal,
                  IF asked /\ permitted THEN size_shares ELSE 0)
        /\ history' = Append(history,
               HistoryEntry(current_price, curr_signal, asked,
                            SizerCapital(current_price, curr_signal),
                            IF asked THEN size_shares ELSE 0))

\* One bar of a run whose bars are recorded
RecordedBar(current_price, curr_signal, size_shares) ==
    LET asked == curr_signal # sig /\ curr_signal # 0
    IN  /\ RunBar(current_price, curr_signal, IF asked THEN size_shares ELSE 0)
        /\ history' = Append(history,
               HistoryEntry(current_price, curr_signal, asked,
                            SizerCapital(current_price, curr_signal),
                            IF asked THEN size_shares ELSE 0))

\* A bar of the first run: any close, signal and sizer answer
FirstRunBar ==
    /\ ~first.done
    /\ \E current_price \in Prices, curr_signal \in RerunSignals :
           \E size_shares \in (IF curr_signal # sig /\ curr_signal # 0
                                THEN RerunShares ELSE {0}) :
               RecordedBar(current_price, curr_signal, size_shares)
    /\ UNCHANGED first
    /\ UNCHANGED <<managerVars, sizerVars, reportVars>>

\* run() is called again with the same data, signals, config and sizer
Rerun ==
    /\ ~first.done
    /\ bar >= 1
    /\ first' = [first EXCEPT !.done = TRUE, !.history = history, !.trades = trades]
    /\ history' = <<>>
    /\ bar' = 0
    /\ sig' = first.sig
    /\ close' = first.close
    /\ cash' = StartLocals.cash
    /\ shares' = StartLocals.shares
    /\ entry_price' = StartLocals.entry_price
    /\ entry_idx' = StartLocals.entry_idx
    /\ trades' = StartLocals.trades
    /\ equity' = config.initial_capital * MoneyScale
    /\ leg' = NoLeg
    /\ UNCHANGED config
    /\ UNCHANGED <<managerVars, sizerVars, reportVars>>

\* A bar of the second run: the same close and signal; the sizer, asked the
\* same question as in the first run, gives the same answer, and any answer
\* to another question
SecondRunBar ==
    /\ first.done
    /\ bar < Len(first.history)
    /\ LET was == first.history[bar + 1]
           same == /\ was.asked
                   /\ was.capital = SizerCapital(was.close, was.sig)
       IN  \E size_shares \in (IF same THEN {was.size} ELSE RerunShares) :
               RecordedBar(was.close, was.sig, size_shares)
    /\ UNCHANGED first
    /\ UNCHANGED <<managerVars, sizerVars, reportVars>>

---------------------------------------------------------------------------
(* The same run at two commission rates, the second at least as high *)

CommissionPrices == {2, 5}         \* data['close'] values of these runs
CommissionSignals == {-2, 0, 1, 2} \* their signals, in halves
RaisedRates == {0, 1, 2}           \* config.commission * RateDen of these runs

\* size = position_sizer.calculate_size(capital=cash, price=execution_price,
\* signal_strength=abs(curr_signal)); capital and price both in money units
SizerAnswer(current_price, curr_signal) ==
    SizeOf(sizer, SizerCapital(current_price, curr_signal),
           ExecutionPrice(current_price, sig, curr_signal) * ShareScale * RateDen,
           Frac(Abs(curr_signal), 2), NoArg)

\* size.shares can be held as it is: with whole shares always (int() drops the
\* rest), with fractional shares when it is a multiple of 1/ShareScale
Representable(q) ==
    config.fractional_shares => (q[1] * ShareScale) % q[2] = 0

\* size.shares in 1/ShareScale shares, the rest below that dropped
SharesOf(q) == (q[1] * ShareScale) \div q[2]

\* One bar with the sizer consulted as the loop consults it
SizedBar(current_price, curr_signal) ==
    IF curr_signal # sig /\ curr_signal # 0
    THEN \E size \in {SizerAnswer(current_price, curr_signal)} :
             /\ size.position_type # "raise"
             /\ size.shares[1] >= 0
             /\ Representable(size.shares)
             /\ RecordedBar(current_price, curr_signal, SharesOf(size.shares))
    ELSE RecordedBar(current_price, curr_signal, 0)

\* A bar of the run at the lower rate: any close and signal
CheapRunBar ==
    /\ ~first.done
    /\ \E current_price \in CommissionPrices, curr_signal \in CommissionSignals :
           SizedBar(current_price, curr_signal)
    /\ UNCHANGED first
    /\ UNCHANGED <<managerVars, sizerVars, reportVars>>

\* run() on the same data, signals and sizer with a config that differs in
\* commission only, and not downwards
RaiseCommission ==
    /\ ~first.done
    /\ bar >= 1
    /\ \E c2 \in RaisedRates :
           /\ c2 >= config.commission
           /\ config' = [config EXCEPT !.commission = c2]
    /\ first' = [first EXCEPT !.done = TRUE, !.history = history, !.trades = trades,
                              !.commission = config.commission]
    /\ history' = <<>>
    /\ bar' = 0
    /\ sig' = first.sig
    /\ close' = first.close
    /\ cash' = StartLocals.cash
    /\ shares' = StartLocals.shares
    /\ entry_price' = StartLocals.entry_price
    /\ entry_idx' = StartLocals.entry_idx
    /\ trades' = StartLocals.trades
    /\ equity' = config.initial_capital * MoneyScale
    /\ leg' = NoLeg
    /\ UNCHANGED <<managerVars, sizerVars, reportVars>>

\* A bar of the run at the higher rate: the same close and signal
CostlyRunBar ==
    /\ first.done
    /\ bar < Len(first.history)
    /\ SizedBar(first.history[bar + 1].close, first.history[bar + 1].sig)
    /\ UNCHANGED first
    /\ UNCHANGED <<managerVars, sizerVars, reportVars>>

---------------------------------------------------------------------------
(* metrics.py: calculate_metrics *)

\* A metric value: an exact rational (form "exact"), the signed square root
\* of a rational (form "root": sign(v) * sqrt(|v|)), or the floating-point
\* value of the named expression, which the model does not evaluate
Exact(q) == [form |-> "exact", v |-> q]
Root(q) == [form |-> "root", v |-> q]
Float(expression) == [form |-> expression, v |-> Zero]

SeqRange(s) == {s[k] : k \in 1..Len(s)}

RECURSIVE FracSum(_)
FracSum(s) ==
    IF Len(s) = 0 THEN Zero
    ELSE IF Len(s) = 1 THEN s[1]
    ELSE LET half == Len(s) \div 2
         IN  FracAdd(FracSum(SubSeq(s, 1, half)), FracSum(SubSeq(s, half + 1, Len(s))))

FracAbs(a) == <<Abs(a[1]), a[2]>>
FracSetMin(S) == CHOOSE x \in S : \A y \in S : FracLe(x, y)
FracSetMax(S) == CHOOSE x \in S : \A y \in S : FracLe(y, x)

\* equity_curve.pct_change().fillna(0), as run() passes it for `returns`
PctChange(equity_curve) ==
    [k \in 1..Len(equity_curve) |->
        IF k = 1 THEN Zero
        ELSE Frac(equity_curve[k] - equity_curve[k - 1], equity_curve[k - 1])]

\* equity_curve.cummax()
CumMaxGlobal(equity_curve) ==
    [k \in 1..Len(equity_curve) |->
        CHOOSE x \in SeqRange(equity_curve) : \A y \in SeqRange(equity_curve) : y <= x]

CumMax(equity_curve) ==
    [k \in 1..Len(equity_curve) |->
        CHOOSE x \in {equity_curve[j] : j \in 1..k} :
            \A y \in {equity_curve[j] : j \in 1..k} : y <= x]

\* drawdown = (equity_curve - peak) / peak
Drawdown(equity_curve) ==
    LET peak == CumMax(equity_curve)
    IN  [k \in 1..Len(equity_curve) |-> Frac(equity_curve[k] - peak[k], peak[k])]

\* The loop of _max_consecutive_true from element k on, with the running
\* count and the runs appended so far
RECURSIVE ConsecutiveRuns(_, _, _, _)
ConsecutiveRuns(arr, k, count, runs) ==
    IF k > Len(arr)
    THEN IF count > 0 THEN Append(runs, count) ELSE runs
    ELSE IF arr[k]
         THEN ConsecutiveRuns(arr, k + 1, count + 1, runs)
         ELSE ConsecutiveRuns(arr, k + 1, 0,
                              IF count > 0 THEN Append(runs, count) ELSE runs)

\* _max_consecutive_true(series)
MaxConsecutiveTrue(series) ==
    LET runs == ConsecutiveRuns(series, 1, 0, <<>>)
    IN  IF \A k \in 1..Len(series) : ~series[k] THEN 0
        ELSE IF runs = <<>> THEN 0
        ELSE CHOOSE x \in SeqRange(runs) : \A y \in SeqRange(runs) : y <= x

\* _empty_metrics()
EmptyMetrics ==
    [total_return |-> Exact(Zero), annual_return |-> Exact(Zero),
     monthly_return |-> Exact(Zero), sharpe_ratio |-> Exact(Zero),
     sortino_ratio |-> Exact(Zero), calmar_ratio |-> Exact(Zero),
     information_ratio |-> Exact(Zero), max_drawdown |-> Exact(Zero),
     avg_drawdown |-> Exact(Zero), max_drawdown_duration |-> 0,
     recovery_factor |-> Exact(Zero), win_rate |-> Exact(Zero),
     profit_factor |-> Exact(Zero), avg_win |-> Exact(Zero),
     avg_loss |-> Exact(Zero), largest_win |-> Exact(Zero),
     largest_loss |-> Exact(Zero), avg_trade |-> Exact(Zero),
     total_trades |-> 0, winning_trades |-> 0, losing_trades |-> 0,
     avg_holding_period |-> Exact(Zero),
     alpha |-> Exact(Zero), beta |-> Exact(One), correlation |-> Exact(Zero),
     tracking_error |-> Exact(Zero),
     volatility |-> Exact(Zero), downside_deviation |-> Exact(Zero)]

\* returns.std() > 0: the sample deviation of two or more returns is positive
\* exactly when they are not all equal
StdPositive(returns) ==
    \E j, k \in 1..Len(returns) : returns[j] # returns[k]

\* [x for x in s if x > 0] for sign 1, [x for x in s if x < 0] for sign -1
RECURSIVE SelectSign(_, _)
SelectSign(s, sign) ==
    IF s = <<>> THEN <<>>
    ELSE IF Sign(s[1][1]) = sign THEN <<s[1]>> \o SelectSign(Tail(s), sign)
         ELSE SelectSign(Tail(s), sign)

\* np.mean of a non-empty list
FracMean(s) == FracDiv(FracSum(s), Whole(Len(s)))

\* The return, volatility and risk-adjusted metrics (lines 89-108)
ReturnMetrics(returns, equity_curve) ==
    LET n_days == Len(returns)
        total_return == FracSub(Frac(equity_curve[Len(equity_curve)], equity_curve[1]), One)
        negative_returns == SelectSign(returns, -1)
        downside_deviation ==
            IF Len(negative_returns) = 0 THEN Exact(<<1, 1000>>)
            ELSE IF Len(negative_returns) = 1 THEN Float("nan")
            ELSE IF StdPositive(negative_returns)
                 THEN Float("negative_returns.std() * sqrt(252)")
                 ELSE Exact(Zero)
        downside_positive ==
            downside_deviation.form # "nan" /\ downside_deviation # Exact(Zero)
    IN  [total_return |-> Exact(total_return),
         annual_return |-> Float("(1 + total_return) ** (252 / n_days) - 1"),
         monthly_return |-> Float("(1 + total_return) ** (21 / n_days) - 1"),
         volatility |-> IF StdPositive(returns) THEN Float("returns.std() * sqrt(252)")
                                               ELSE Exact(Zero),
         downside_deviation |-> downside_deviation,
         sharpe_ratio |-> IF StdPositive(returns) THEN Float("excess_return / volatility")
                                                 ELSE Exact(Zero),
         sortino_ratio |-> IF downside_positive
                           THEN Float("excess_return / downside_deviation")
                           ELSE Exact(Zero)]

\* The drawdown metrics (lines 110-125)
DrawdownMetrics(equity_curve) ==
    LET drawdown == Drawdown(equity_curve)
        max_dd == FracSetMin(SeqRange(drawdown))
        is_underwater == [k \in 1..Len(drawdown) |-> FracLt(drawdown[k], Zero)]
        total_return == FracSub(Frac(equity_curve[Len(equity_curve)], equity_curve[1]), One)
    IN  [max_drawdown |-> Exact(max_dd),
         avg_drawdown |-> IF \E k \in 1..Len(drawdown) : is_underwater[k]
                          THEN Float("drawdown[drawdown < 0].mean()")
                          ELSE Exact(Zero),
         max_drawdown_duration |-> MaxConsecutiveTrue(is_underwater),
         calmar_ratio |-> IF max_dd # Zero
                          THEN Float("annual_return / abs(max_drawdown)")
                          ELSE Exact(Zero),
         recovery_factor |-> IF max_dd # Zero
                             THEN Exact(FracDiv(total_return, FracAbs(max_dd)))
                             ELSE Exact(Zero)]

\* The trade metrics (lines 127-169); each trade's pnl is a fraction
TradeMetrics(trade_list) ==
    LET pnls == [k \in 1..Len(trade_list) |-> trade_list[k].pnl]
        wins == SelectSign(pnls, 1)
        losses == SelectSign(pnls, -1)
        gross_profit == IF wins # <<>> THEN FracSum(wins) ELSE Zero
        gross_loss == IF losses # <<>> THEN FracAbs(FracSum(losses)) ELSE <<1, 1000>>
        holding_periods == [k \in 1..Len(trade_list) |-> Whole(trade_list[k].holding_period)]
    IN  IF Len(trade_list) > 0
        THEN [total_trades |-> Len(trade_list),
              winning_trades |-> Len(wins),
              losing_trades |-> Len(losses),
              win_rate |-> Exact(Frac(Len(wins), Len(trade_list))),
              avg_win |-> Exact(IF wins # <<>> THEN FracMean(wins) ELSE Zero),
              avg_loss |-> Exact(IF losses # <<>> THEN FracMean(losses) ELSE Zero),
              largest_win |-> Exact(FracSetMax(SeqRange(pnls))),
              largest_loss |-> Exact(FracSetMin(SeqRange(pnls))),
              avg_trade |-> Exact(FracMean(pnls)),
              profit_factor |-> Exact(IF FracLt(Zero, gross_loss)
                                      THEN FracDiv(gross_profit, gross_loss) ELSE Zero),
              avg_holding_period |-> Exact(FracMean(holding_periods))]
        ELSE [total_trades |-> 0, winning_trades |-> 0, losing_trades |-> 0,
              win_rate |-> Exact(Zero), avg_win |-> Exact(Zero),
              avg_loss |-> Exact(Zero), largest_win |-> Exact(Zero),
              largest_loss |-> Exact(Zero), avg_trade |-> Exact(Zero),
              profit_factor |-> Exact(Zero), avg_holding_period |-> Exact(Zero)]

\* benchmark_returns: None, or a series of values at consecutive dates from
\* `start` on (the returns are at dates 1..n)
NoBenchmark == [given |-> FALSE, start |-> 0, values |-> <<>>]
Benchmark(start, values) == [given |-> TRUE, start |-> start, values |-> values]

\* pd.concat([returns, benchmark_returns], axis=1, join='inner'): the pairs at
\* the dates both series have
Aligned(returns, benchmark_returns) ==
    LET lo == IF benchmark_returns.start > 1 THEN benchmark_returns.start ELSE 1
        last_b == benchmark_returns.start + Len(benchmark_returns.values) - 1
        hi == IF last_b < Len(returns) THEN last_b ELSE Len(returns)
    IN  [k \in 1..(IF hi >= lo THEN hi - lo + 1 ELSE 0) |->
            <<returns[lo + k - 1],
              benchmark_returns.values[lo + k - benchmark_returns.start]>>]

\* Series.cov (and var, with the series itself): sum((x-mx)(y-my)) / (n-1)
Cov(x, y) ==
    LET mx == FracMean(x)
        my == FracMean(y)
    IN  FracDiv(FracSum([k \in 1..Len(x) |->
                            FracMul(FracSub(x[k], mx), FracSub(y[k], my))]),
                Whole(Len(x) - 1))

NeutralBenchmark ==
    [alpha |-> Exact(Zero), beta |-> Exact(One), correlation |-> Exact(Zero),
     information_ratio |-> Exact(Zero), tracking_error |-> Exact(Zero)]

\* The benchmark comparison (lines 181-208)
BenchmarkMetrics(returns, benchmark_returns) ==
    IF benchmark_returns.given /\ Len(benchmark_returns.values) > 0
    THEN LET aligned == Aligned(returns, benchmark_returns)
             strat_ret == [k \in 1..Len(aligned) |-> aligned[k][1]]
             bench_ret == [k \in 1..Len(aligned) |-> aligned[k][2]]
             excess == [k \in 1..Len(aligned) |-> FracSub(strat_ret[k], bench_ret[k])]
         IN  IF Len(aligned) > 10
             THEN LET covariance == Cov(strat_ret, bench_ret)
                      bench_var == Cov(bench_ret, bench_ret)
                      strat_var == Cov(strat_ret, strat_ret)
                      beta == IF FracLt(Zero, bench_var)
                              THEN FracDiv(covariance, bench_var) ELSE One
                      excess_var == Cov(excess, excess)
                      excess_year == FracMul(FracMean(excess), Whole(252))
                  IN  [alpha |-> Exact(FracMul(FracSub(FracMean(strat_ret),
                                       FracMul(beta, FracMean(bench_ret))), Whole(252))),
                       beta |-> Exact(beta),
                       correlation |->
                           IF strat_var = Zero \/ bench_var = Zero THEN Float("nan")
                           ELSE Root(FracMul(FracDiv(covariance, strat_var),
                                             FracDiv(FracAbs(covariance), bench_var))),
                       tracking_error |-> Root(FracMul(excess_var, Whole(252))),
                       information_ratio |->
                           IF FracLt(Zero, excess_var)
                           THEN Root(FracMul(FracDiv(excess_year, excess_var),
                                             FracDiv(FracAbs(excess_year), Whole(252))))
                           ELSE Exact(Zero)]
             ELSE NeutralBenchmark
    ELSE NeutralBenchmark

\* calculate_metrics(returns, equity_curve, trades, benchmark_returns); the
\* t-statistic, p-value, skewness and kurtosis are not modelled
CalculateMetrics(returns, equity_curve, trade_list, benchmark_returns) ==
    IF Len(returns) < 2 THEN EmptyMetrics
    ELSE LET r == ReturnMetrics(returns, equity_curve)
             d == DrawdownMetrics(equity_curve)
             t == TradeMetrics(trade_list)
             b == BenchmarkMetrics(returns, benchmark_returns)
         IN  [total_return |-> r.total_return, annual_return |-> r.annual_return,
              monthly_return |-> r.monthly_return, sharpe_ratio |-> r.sharpe_ratio,
              sortino_ratio |-> r.sortino_ratio, calmar_ratio |-> d.calmar_ratio,
              information_ratio |-> b.information_ratio,
              max_drawdown |-> d.max_drawdown, avg_drawdown |-> d.avg_drawdown,
              max_drawdown_duration |-> d.max_drawdown_duration,
              recovery_factor |-> d.recovery_factor, win_rate |-> t.win_rate,
              profit_factor |-> t.profit_factor, avg_win |-> t.avg_win,
              avg_loss |-> t.avg_loss, largest_win |-> t.largest_win,
              largest_loss |-> t.largest_loss, avg_trade |-> t.avg_trade,
              total_trades |-> t.total_trades, winning_trades |-> t.winning_trades,
              losing_trades |-> t.losing_trades,
              avg_holding_period |-> t.avg_holding_period,
              alpha |-> b.alpha, beta |-> b.beta, correlation |-> b.correlation,
              tracking_error |-> b.tracking_error,
              volatility |-> r.volatility, downside_deviation |-> r.downside_deviation]

\* A call calculate_metrics(returns, equity_curve, trades, benchmark_returns)
\* that has not returned yet
Asked(returns, equity_curve, trade_list, benchmark_returns) ==
    [status |-> "asked", returns |-> returns, equity_curve |-> equity_curve,
     trades |-> trade_list, benchmark |-> benchmark_returns, metrics |-> EmptyMetrics]

\* The call returns
CallCalculateMetrics ==
    /\ measured.status = "asked"
    /\ measured' = [measured EXCEPT
           !.status = "returned",
           !.metrics = CalculateMetrics(measured.returns, measured.equity_curve,
                                        measured.trades, measured.benchmark)]
    /\ UNCHANGED <<backtest, walk, monte, multi>>
    /\ UNCHANGED <<engineVars, managerVars, sizerVars, rerunVars>>

MaxCurve == 5                          \* bars of the equity curves measured
MaxPnls == 1                           \* trades of the ledgers measured
CurveValues == {90, 95, 100, 120, 130} \* equity values of those curves
MetricPnls == {-1, 0, 2}               \* Trade.pnl of those ledgers

\* The equity curves, starting at 100, and the ledgers
Curves ==
    UNION {{c \in [1..n -> CurveValues] : c[1] = 100} : n \in 1..MaxCurve}
Ledgers ==
    UNION {[1..n -> {[pnl |-> Whole(p), holding_period |-> 1] : p \in MetricPnls}] :
              n \in 0..MaxPnls}

MaxObs == 12                           \* longest series of the benchmark runs
BenchmarkEquities == {100, 120}        \* equity values of their curves
BenchmarkValues == {<<-1, 100>>, Zero, <<1, 100>>}   \* benchmark returns

\* Their curves and benchmark series: 9 to MaxObs observations alternating
\* between two values, the benchmark starting at the first or the second date
LongCurves ==
    {[k \in 1..n |-> IF k % 2 = 1 THEN p ELSE q] :
        n \in 9..MaxObs, p \in BenchmarkEquities, q \in BenchmarkEquities}
Benchmarks ==
    {NoBenchmark, Benchmark(1, <<>>)}
    \cup {Benchmark(start, [k \in 1..n |-> IF k % 2 = 1 THEN u ELSE v]) :
             start \in 1..2, n \in 9..MaxObs, u \in BenchmarkValues, v \in BenchmarkValues}

---------------------------------------------------------------------------
(* BacktestEngine.run: the loop of _run_vectorized, then the result *)

RunCapitals == {-100, 0, 100}      \* config.initial_capital of these runs, in ticks
RunSignals == {-2, 0, 2}           \* their signals, in halves
RunShares == {1, 3}                \* size.shares there, in 1/ShareScale shares

\* equity_series: equity[0] = initial_capital, then the equity of each bar
EquityCurve ==
    [k \in 1..(Len(history) + 1) |->
        IF k = 1 THEN config.initial_capital * MoneyScale ELSE history[k - 1].equity]

\* The trades as calculate_metrics reads them, pnl in money
TradeList ==
    [k \in 1..Len(trades) |->
        [pnl |-> Frac(trades[k].pnl, MoneyScale),
         holding_period |-> trades[k].holding_period]]

\* calculate_metrics on the run's curve; where an equity of the curve is zero
\* the divisions by it give nan or inf, which the model does not evaluate
RunMetrics(equity_curve, trade_list) ==
    IF \E k \in 1..Len(equity_curve) : equity_curve[k] = 0
    THEN Float("nan")
    ELSE CalculateMetrics(PctChange(equity_curve), equity_curve, trade_list, NoBenchmark)

\* run() raised the named exception
RaisedRun(exception) == [status |-> "raised", exception |-> exception]

\* BacktestResult(equity_curve, returns, positions, metrics, trades, ...)
BacktestResult(equity_curve, positions_df, trade_list) ==
    [status |-> "returned", equity_curve |-> equity_curve, positions |-> positions_df,
     trades |-> trade_list, metrics |-> RunMetrics(equity_curve, trade_list)]

\* What run() gives once the loop has run `bars` bars: with a single bar of
\* data the loop has no iteration, position_history is empty and
\* pd.DataFrame([]).set_index('date') raises KeyError (line 281)
RunOutcome(bars, equity_curve, positions_df, trade_list) ==
    IF bars = 0 THEN RaisedRun("KeyError")
    ELSE BacktestResult(equity_curve, positions_df, trade_list)

\* One iteration of the loop of a run in progress
LoopBar ==
    /\ backtest.status = "none"
    /\ \E current_price \in Prices, curr_signal \in RunSignals :
           \E size_shares \in (IF curr_signal # sig /\ curr_signal # 0
                                THEN RunShares ELSE {0}) :
               RecordedBar(current_price, curr_signal, size_shares)
    /\ UNCHANGED first
    /\ UNCHANGED <<managerVars, sizerVars, reportVars>>

\* strategy.validate_data(data) passes: the price columns are there and the
\* timestamps increase, as in every series of the model, which has a close at
\* each bar and its bars in order
ValidateData == \A k \in 1..Len(history) : history[k].close \in Prices

\* The data end here: the loop is over and run() returns or raises
Return ==
    /\ backtest.status = "none"
    /\ ValidateData
    /\ backtest' = RunOutcome(bar, EquityCurve, history, TradeList)
    /\ UNCHANGED <<measured, walk, monte, multi>>
    /\ UNCHANGED <<engineVars, managerVars, sizerVars, rerunVars>>

---------------------------------------------------------------------------
(* BacktestEngine.run_monte_carlo *)

MaxBaseTrades == 11                \* most trades of a base result
MaxSimulations == 2                \* largest n_simulations asked for
MonteReturns == {<<-1, 4>>, Zero, <<1, 4>>} \* Trade.pnl_pct of the base trades
MantissaBits == 8                  \* significand of the floats of the trials

\* A positive n/d scaled by a power of two 2^e into [2^(p-1), 2^p), p the
\* width of the significand: <<n', d', e>> with n/d = (n'/d') * 2^e
RECURSIVE Normalised(_, _, _)
Normalised(n, d, e) ==
    IF n >= (2 ^ MantissaBits) * d THEN Normalised(n, 2 * d, e + 1)
    ELSE IF n < (2 ^ (MantissaBits - 1)) * d THEN Normalised(2 * n, d, e - 1)
    ELSE <<n, d, e>>

\* The result of a float operation whose exact value is q: the nearest float,
\* ties to the even significand (floats of MantissaBits bits in place of the
\* 53 of a Python float; no overflow or underflow at these magnitudes)
Rounded(q) ==
    IF q[1] = 0 THEN Zero
    ELSE LET x == Normalised(Abs(q[1]), q[2], 0)
             m == x[1] \div x[2]
             twice == 2 * (x[1] % x[2])
             up == twice > x[2] \/ (twice = x[2] /\ m % 2 = 1)
             mm == IF up THEN m + 1 ELSE m
         IN  IF x[3] >= 0 THEN Frac(Sign(q[1]) * mm * (2 ^ x[3]), 1)
             ELSE Frac(Sign(q[1]) * mm, 2 ^ (0 - x[3]))

\* The base results run() has returned: none, 5, or 9 to MaxBaseTrades
\* trades, the first with one return and the others with another
BaseTrades ==
    {[k \in 1..n |-> [pnl_pct |-> IF k = 1 THEN a ELSE b]] :
        n \in {0, 5} \cup 9..MaxBaseTrades, a \in MonteReturns, b \in MonteReturns}

\* The values np.random.permutation(trade_returns) can return: every
\* rearrangement of the list
Shuffles(s) ==
    {t \in [1..Len(s) -> SeqRange(s)] :
        \A v \in SeqRange(s) :
            Cardinality({k \in 1..Len(s) : t[k] = v})
                = Cardinality({k \in 1..Len(s) : s[k] = v})}

\* equity = [initial_capital]; for ret in shuffled: equity.append(equity[-1] * (1 + ret)),
\* each of the two operations rounded
RECURSIVE Compound(_, _, _)
Compound(path, shuffled, k) ==
    IF k > Len(shuffled) THEN path
    ELSE Compound(Append(path, Rounded(FracMul(path[Len(path)],
                                               Rounded(FracAdd(One, shuffled[k]))))),
                  shuffled, k + 1)

\* The three results of a trial from its equity path
TrialOf(path) ==
    LET capital == path[1]
        final_equity == path[Len(path)]
        running_max == [k \in 1..Len(path) |-> FracSetMax({path[j] : j \in 1..k})]
    IN  [final_equity |-> final_equity,
         total_return |-> Rounded(FracSub(Rounded(FracDiv(final_equity, capital)), One)),
         max_drawdown |->
             FracSetMin({Rounded(FracSub(Rounded(FracDiv(path[k], running_max[k])), One)) :
                            k \in 1..Len(path)})]

\* A trial whose equity is not compounded: every step starts from equity[0]
TrialUncompounded(shuffled) ==
    LET capital == Rounded(Whole(config.initial_capital))
    IN  TrialOf(<<capital>> \o
                [k \in 1..Len(shuffled) |->
                    Rounded(FracMul(capital, Rounded(FracAdd(One, shuffled[k]))))])

\* One trial: final_equity, total_return and max_drawdown of a shuffled list
Trial(shuffled) ==
    TrialOf(Compound(<<Rounded(Whole(config.initial_capital))>>, shuffled, 1))

\* run_monte_carlo(strategy, data, n_simulations) just called: the base run
\* has returned and nothing else is done yet
MonteAsked(n_simulations) ==
    [status |-> "asked", n_simulations |-> n_simulations, warned |-> FALSE,
     trade_returns |-> <<>>, simulations |-> <<>>, exception |-> ""]

\* The test of the base result: fewer than 10 trades give the warning and the
\* empty list, otherwise the trade returns are taken and the loop begins
MonteCarloStart ==
    /\ monte.status = "asked"
    /\ monte' = IF Len(backtest.trades) < 10
                THEN [monte EXCEPT !.status = "returned", !.warned = TRUE]
                ELSE [monte EXCEPT !.status = "looping",
                          !.trade_returns = [k \in 1..Len(backtest.trades) |->
                                                backtest.trades[k].pnl_pct]]
    /\ UNCHANGED <<measured, backtest, walk, multi>>
    /\ UNCHANGED <<engineVars, managerVars, sizerVars, rerunVars>>

\* One iteration of `for _ in range(n_simulations)`
MonteCarloTrial ==
    /\ monte.status = "looping"
    /\ Len(monte.simulations) < monte.n_simulations
    /\ \E shuffled \in Shuffles(monte.trade_returns) :
           monte' = [monte EXCEPT !.simulations = Append(@, Trial(shuffled))]
    /\ UNCHANGED <<measured, backtest, walk, multi>>
    /\ UNCHANGED <<engineVars, managerVars, sizerVars, rerunVars>>

\* After the loop: sim_df = pd.DataFrame(simulation_results) and the
\* percentiles of sim_df['total_return'], a column an empty frame does not
\* have (KeyError); the percentiles themselves are not modelled
MonteCarloEnd ==
    /\ monte.status = "looping"
    /\ Len(monte.simulations) >= monte.n_simulations
    /\ monte' = IF monte.simulations = <<>>
                THEN [monte EXCEPT !.status = "raised", !.exception = "KeyError"]
                ELSE [monte EXCEPT !.status = "returned"]
    /\ UNCHANGED <<measured, backtest, walk, multi>>
    /\ UNCHANGED <<engineVars, managerVars, sizerVars, rerunVars>>

---------------------------------------------------------------------------
(* BacktestEngine.run_walk_forward *)

MaxWalkBars == 5                   \* most bars of the data walked over
MaxTrain == 2                      \* largest train_period
MaxTest == 3                       \* largest test_period

\* run_walk_forward(strategy, data, train_period, test_period) just called
WalkAsked(n, train_period, test_period) ==
    [status |-> "asked", n |-> n, train_period |-> train_period,
     test_period |-> test_period, i |-> 0, results |-> <<>>, exception |-> ""]

\* results = []; n = len(data); i = train_period
WalkStart ==
    /\ walk.status = "asked"
    /\ walk' = [walk EXCEPT !.status = "looping", !.i = walk.train_period]
    /\ UNCHANGED <<measured, backtest, monte, multi>>
    /\ UNCHANGED <<engineVars, managerVars, sizerVars, rerunVars>>

\* The loop test holds: self.run(strategy, test_data, position_sizer) begins
\* on test_data = data.iloc[i:i+test_period], whose first bar has any close
\* and signal, with the locals _run_vectorized starts from
WalkWindow ==
    /\ walk.status = "looping"
    /\ walk.i + walk.test_period <= walk.n
    /\ walk' = [walk EXCEPT !.status = "running"]
    /\ bar' = 0
    /\ sig' \in RunSignals
    /\ close' \in Prices
    /\ cash' = StartLocals.cash
    /\ shares' = StartLocals.shares
    /\ entry_price' = StartLocals.entry_price
    /\ entry_idx' = StartLocals.entry_idx
    /\ trades' = StartLocals.trades
    /\ equity' = config.initial_capital * MoneyScale
    /\ leg' = NoLeg
    /\ history' = <<>>
    /\ first' = [NoRun EXCEPT !.sig = sig', !.close = close']
    /\ UNCHANGED config
    /\ UNCHANGED <<measured, backtest, monte, multi>>
    /\ UNCHANGED <<managerVars, sizerVars>>

\* One iteration of the loop of the run on the current window
WalkBar ==
    /\ walk.status = "running"
    /\ bar < walk.test_period - 1
    /\ \E current_price \in Prices, curr_signal \in RunSignals :
           \E size_shares \in (IF curr_signal # sig /\ curr_signal # 0
                                THEN RunShares ELSE {0}) :
               RecordedBar(current_price, curr_signal, size_shares)
    /\ UNCHANGED first
    /\ UNCHANGED <<managerVars, sizerVars, reportVars>>

\* The run on the window is over: results.append(result); i += test_period,
\* or the exception of the run leaves run_walk_forward
WalkWindowEnd ==
    /\ walk.status = "running"
    /\ bar >= walk.test_period - 1
    /\ ValidateData
    /\ LET result == RunOutcome(bar, EquityCurve, history, TradeList)
       IN  walk' = IF result.status = "raised"
                   THEN [walk EXCEPT !.status = "raised",
                                     !.exception = result.exception]
                   ELSE [walk EXCEPT
                            !.status = "looping",
                            !.results = Append(@, [start |-> walk.i,
                                                   stop |-> walk.i + walk.test_period,
                                                   first |-> first,
                                                   result |-> result]),
                            !.i = walk.i + walk.test_period]
    /\ UNCHANGED <<measured, backtest, monte, multi>>
    /\ UNCHANGED <<engineVars, managerVars, sizerVars, rerunVars>>

\* The loop test fails: return results
WalkReturn ==
    /\ walk.status = "looping"
    /\ ~(walk.i + walk.test_period <= walk.n)
    /\ walk' = [walk EXCEPT !.status = "returned"]
    /\ UNCHANGED <<measured, backtest, monte, multi>>
    /\ UNCHANGED <<engineVars, managerVars, sizerVars, rerunVars>>

---------------------------------------------------------------------------
(* MultiAssetBacktester.run *)

MaxAssetBars == 2                  \* most loop bars of one asset's run
AssetSymbols == <<"A", "B">>       \* data_dict, in its order
MultiCapitals == {100}             \* config.initial_capital of these runs, in ticks
AssetWeights == {0, 1}             \* the weights given, before normalisation
AssetPrices == {2, 5}              \* data['close'] values of the assets

\* weights: None (equal weights), or a weight for every symbol
NoWeights == [given |-> FALSE]
Weights(w) == [given |-> TRUE, of |-> w]

\* MultiAssetBacktester(config).run(strategy, data_dict, weights) just called
MultiAsked(c, weights) ==
    [status |-> "asked", config |-> c, weights |-> weights, total_weight |-> 0,
     k |-> 0, all_trades |-> <<>>, exception |-> ""]

\* weights defaults to 1 / len(data_dict) each; total_weight = sum(weights.values()),
\* by which every weight is divided: ZeroDivisionError when it is 0
MultiStart ==
    /\ multi.status = "asked"
    /\ LET w == IF multi.weights.given THEN multi.weights.of
                ELSE [j \in 1..Len(AssetSymbols) |-> 1]
           total_weight == SumOver(1..Len(AssetSymbols), w)
       IN  multi' = IF total_weight = 0
                    THEN [multi EXCEPT !.status = "raised",
                                       !.exception = "ZeroDivisionError"]
                    ELSE [multi EXCEPT !.status = "looping", !.weights = Weights(w),
                                       !.total_weight = total_weight, !.k = 1]
    /\ UNCHANGED <<measured, backtest, walk, monte>>
    /\ UNCHANGED <<engineVars, managerVars, sizerVars, rerunVars>>

\* asset_capital = self.config.initial_capital * weights[symbol], in ticks
AssetCapital ==
    (multi.config.initial_capital * multi.weights.of[multi.k]) \div multi.total_weight

\* BacktestConfig(initial_capital=asset_capital, commission=..., slippage=...):
\* every other field takes its default
AssetConfig ==
    [initial_capital |-> AssetCapital,
     commission |-> multi.config.commission,
     slippage |-> multi.config.slippage,
     fractional_shares |-> TRUE,
     allow_shorting |-> TRUE]

\* The next symbol has no capital: continue
MultiSkip ==
    /\ multi.status = "looping"
    /\ multi.k <= Len(AssetSymbols)
    /\ AssetCapital <= 0
    /\ multi' = [multi EXCEPT !.k = multi.k + 1]
    /\ UNCHANGED <<measured, backtest, walk, monte>>
    /\ UNCHANGED <<engineVars, managerVars, sizerVars, rerunVars>>

\* asset_engine = BacktestEngine(asset_config); asset_engine.run(strategy, data)
\* begins on the symbol's data, whose first bar has any close and signal
MultiAsset ==
    /\ multi.status = "looping"
    /\ multi.k <= Len(AssetSymbols)
    /\ AssetCapital > 0
    /\ multi' = [multi EXCEPT !.status = "running"]
    /\ config' = AssetConfig
    /\ bar' = 0
    /\ sig' \in RunSignals
    /\ close' \in AssetPrices
    /\ cash' = AssetCapital * MoneyScale
    /\ shares' = 0
    /\ entry_price' = 0
    /\ entry_idx' = 0
    /\ trades' = <<>>
    /\ equity' = AssetCapital * MoneyScale
    /\ leg' = NoLeg
    /\ history' = <<>>
    /\ first' = [NoRun EXCEPT !.sig = sig', !.close = close']
    /\ UNCHANGED <<measured, backtest, walk, monte>>
    /\ UNCHANGED <<managerVars, sizerVars>>

\* One iteration of the loop of the asset's run, with the default sizer
MultiBar ==
    /\ multi.status = "running"
    /\ bar < MaxAssetBars
    /\ \E current_price \in AssetPrices, curr_signal \in RunSignals :
           SizedBar(current_price, curr_signal)
    /\ UNCHANGED first
    /\ UNCHANGED <<managerVars, sizerVars, reportVars>>

\* The asset's run is over: its trades take the symbol and are merged, or the
\* exception of the run leaves MultiAssetBacktester.run
MultiAssetEnd ==
    /\ multi.status = "running"
    /\ ValidateData
    /\ LET result == RunOutcome(bar, EquityCurve, history, TradeList)
       IN  multi' = IF result.status = "raised"
                    THEN [multi EXCEPT !.status = "raised",
                                       !.exception = result.exception]
                    ELSE [multi EXCEPT
                             !.status = "looping",
                             !.all_trades = @ \o [j \in 1..Len(trades) |->
                                 [trades[j] EXCEPT !.symbol = AssetSymbols[multi.k]]],
                             !.k = multi.k + 1]
    /\ UNCHANGED <<measured, backtest, walk, monte>>
    /\ UNCHANGED <<engineVars, managerVars, sizerVars, rerunVars>>

\* Every symbol is done: the combined result (its returns, equity curve and
\* metrics are not modelled)
MultiReturn ==
    /\ multi.status = "looping"
    /\ multi.k > Len(AssetSymbols)
    /\ multi' = [multi EXCEPT !.status = "returned"]
    /\ UNCHANGED <<measured, backtest, walk, monte>>
    /\ UNCHANGED <<engineVars, managerVars, sizerVars, rerunVars>>

---------------------------------------------------------------------------
(* One run with the position sizer consulted, for several sizers *)

SizedPrices == {2, 5}              \* data['close'] values of these runs
SizedSignals == {-2, 0, 1, 2}      \* their signals, in halves

\* The default sizer of run() and sizers a caller passes instead, one of them
\* with target_volatility / 0.20 above 1
RunSizers ==
    {FixedFractionalSizer(<<1, 50>>, <<1, 10>>),
     VolatilityTargeting(<<3, 20>>, Whole(2)),
     VolatilityTargeting(<<3, 10>>, Whole(2)),
     RiskParity}

\* One iteration of the loop of a run
SizedRunBar ==
    /\ \E current_price \in SizedPrices, curr_signal \in SizedSignals :
           SizedBar(current_price, curr_signal)
    /\ UNCHANGED first
    /\ UNCHANGED <<managerVars, sizerVars, reportVars>>

---------------------------------------------------------------------------
(* The same run by an engine built with other RiskLimits *)

\* RiskLimits that would stop any trade if they were consulted
TightLimits ==
    [RiskLimits("fixed") EXCEPT !.max_position_size = 1, !.max_sector_exposure = 1,
                                !.max_positions = 0, !.max_drawdown = 1,
                                !.max_daily_loss = 1, !.max_trades_per_day = 0]

\* BacktestEngine(config) with config.risk_limits = TightLimits and nothing
\* else changed, then run() on the same data, signals and sizer: __init__
\* builds the risk manager of the new engine, run() sets its locals
RerunWithLimits ==
    /\ ~first.done
    /\ bar >= 1
    /\ first' = [first EXCEPT !.done = TRUE, !.history = history, !.trades = trades]
    /\ history' = <<>>
    /\ limits' = TightLimits
    /\ current_capital' = config.initial_capital
    /\ peak_equity' = config.initial_capital
    /\ positions' = NoPositions
    /\ equity_history' = <<>>
    /\ trade_history' = <<>>
    /\ daily_trades' = 0
    /\ last_trade_date' = None
    /\ is_halted' = FALSE
    /\ halt_reason' = ""
    /\ cooldown_until' = None
    /\ bar' = 0
    /\ sig' = first.sig
    /\ close' = first.close
    /\ cash' = StartLocals.cash
    /\ shares' = StartLocals.shares
    /\ entry_price' = StartLocals.entry_price
    /\ entry_idx' = StartLocals.entry_idx
    /\ trades' = StartLocals.trades
    /\ equity' = config.initial_capital * MoneyScale
    /\ leg' = NoLeg
    /\ UNCHANGED <<config, now, last, seen, adds, adds_today, callers>>
    /\ UNCHANGED <<sizerVars, reportVars>>

---------------------------------------------------------------------------
(* Initial states and specifications *)

\* RiskManager.__init__, for each RiskLimits of the given set
InitManagerOf(limit_set) ==
    /\ limits \in limit_set
    /\ current_capital = InitialCapital
    /\ peak_equity = InitialCapital
    /\ positions = NoPositions
    /\ equity_history = <<>>
    /\ trade_history = <<>>
    /\ daily_trades = 0
    /\ last_trade_date = None
    /\ is_halted = FALSE
    /\ halt_reason = ""
    /\ cooldown_until = None
    /\ now = 0
    /\ last = [op |-> "init", symbol |-> "", value |-> 0, sector |-> "",
               halted_before |-> FALSE, result |-> NoResult, checks |-> <<>>]
    /\ seen = NoPositions
    /\ adds = 0
    /\ adds_today = 0
    /\ callers = [c \in Callers |-> IdleCaller]

\* RiskManager.__init__ with the default limits and one of the given
\* stop-loss policies
InitManager(stop_types) == InitManagerOf({RiskLimits(t) : t \in stop_types})

\* The state _run_vectorized sets up before its loop, for the given configs
\* and every first bar (close[0], sig[0])
InitRun(commissions, slippages, flags) ==
    /\ config \in [initial_capital : {InitialCapital},
                   commission : commissions,
                   slippage : slippages,
                   fractional_shares : flags,
                   allow_shorting : flags]
    /\ bar = 0
    /\ sig \in Signals
    /\ close \in Prices
    /\ cash = config.initial_capital * MoneyScale
    /\ shares = 0
    /\ entry_price = 0
    /\ entry_idx = 0
    /\ equity = config.initial_capital * MoneyScale
    /\ trades = <<>>
    /\ leg = NoLeg

\* A backtest: BacktestEngine.__init__ (config, risk manager), then the loop
InitEngine ==
    /\ InitRun(CommissionRates, SlippageRates, BOOLEAN)
    /\ InitManager({"atr"})
    /\ InitNoSizer

\* An engine that is not running
InitIdleEngine ==
    /\ config = [initial_capital |-> InitialCapital, commission |-> 0,
                 slippage |-> 0, fractional_shares |-> TRUE, allow_shorting |-> TRUE]
    /\ bar = 0
    /\ sig = 0
    /\ close \in {CHOOSE p \in Prices : TRUE}
    /\ cash = config.initial_capital * MoneyScale
    /\ shares = 0
    /\ entry_price = 0
    /\ entry_idx = 0
    /\ equity = config.initial_capital * MoneyScale
    /\ trades = <<>>
    /\ leg = NoLeg

\* A risk manager in use (RiskManager.__init__ with one of the given stop-loss
\* policies), beside an engine that is not running
InitRiskManager(stop_types) == InitManager(stop_types) /\ InitIdleEngine

InitDefault == InitRiskManager({"atr"}) /\ InitNoSizer

InitStops == InitRiskManager({"fixed", "atr", "trailing"}) /\ InitNoSizer

\* A risk manager whose RiskLimits give the cooldown a longer length
LongCooldownDays == 2

InitCooldown ==
    /\ InitManagerOf({[RiskLimits("atr") EXCEPT !.drawdown_cooldown_days = LongCooldownDays]})
    /\ InitIdleEngine
    /\ InitNoSizer

NextEngine == Bar /\ UNCHANGED <<managerVars, sizerVars, rerunVars, reportVars>>

SpecEngine == InitEngine /\ [][NextEngine]_vars

\* Any sequence of calls of the halt interface, with one position that is
\* opened once and closed once somewhere in it
NextHalt ==
    \/ Tick
    \/ \E eq \in HaltEquities : UpdateEquity(eq)
    \/ CallCheckDrawdownLimits
    \/ \E symbol \in HaltSymbols, v \in ProposedValues :
           CheckAll(symbol, v, SectorOf(symbol))
    \/ \E symbol \in HaltSymbols :
           /\ positions = NoPositions /\ trade_history = <<>>
           /\ AddPosition(symbol, 1, 5, "long", SectorOf(symbol), None)
    \/ \E symbol \in HaltSymbols : ClosePosition(symbol, 5)

SpecHalt == InitDefault /\ [][NextHalt]_vars

\* The same calls on the manager with the longer cooldown
SpecCooldown == InitCooldown /\ [][NextHalt]_vars

\* Any sequence of rule checks over a changing book of positions
NextRules ==
    \/ \E eq \in RuleEquities : UpdateEquity(eq)
    \/ \E symbol \in Symbols, v \in ProposedValues, sector \in Sectors :
           CheckAll(symbol, v, sector)
    \/ \E symbol \in Symbols :
           AddPosition(symbol, 1, BookPrice(symbol), "long", SectorOf(symbol), None)

SpecRules == InitDefault /\ [][NextRules]_vars

\* Callers that serialize: every check_all + add_position is one step
NextSerial ==
    \/ Tick
    \/ \E eq \in SerialEquities : UpdateEquity(eq)
    \/ \E symbol \in Symbols, v \in ProposedValues :
           SerialTrade(symbol, v, SectorOf(symbol))
    \/ \E symbol \in Symbols : ClosePosition(symbol, 5)

SpecSerial == InitDefault /\ [][NextSerial]_vars

\* Callers that do not serialize: the two steps of different callers interleave
NextRace ==
    \/ \E c \in Callers, symbol \in Symbols, v \in RaceValues :
           CallerCheck(c, symbol, v, SectorOf(symbol))
    \/ \E c \in Callers : CallerAdd(c)

SpecRace == InitDefault /\ [][NextRace]_vars

\* Positions and their stop-losses under price updates
NextStops ==
    \/ \E symbol \in StopSymbols, price \in StopPrices, side \in {"long", "short"},
          atr \in {None, 1} :
           AddPosition(symbol, 1, price, side, SectorOf(symbol), atr)
    \/ \E symbol \in StopSymbols, price \in UpdatePrices :
           UpdatePositionPrice(symbol, price)

SpecStops == InitStops /\ [][NextStops]_vars

\* The position book under adds, price updates and closes
BookSymbols == {"AAPL", "MSFT"}    \* the symbols of the book runs
BookUpdatePrices == {4, 6}         \* update_position_price prices of the book runs

NextBook ==
    \/ \E symbol \in BookSymbols :
           AddPosition(symbol, 1, 5, "long", SectorOf(symbol), None)
    \/ \E symbol \in BookSymbols, price \in BookUpdatePrices :
           UpdatePositionPrice(symbol, price)
    \/ \E symbol \in BookSymbols : ClosePosition(symbol, 5)

SpecBook == InitDefault /\ [][NextBook]_vars

\* Trades, trade-frequency checks and date rollovers in any order
NextFrequency ==
    \/ Tick
    \/ CallCheckTradeFrequency
    \/ \E symbol \in BookSymbols : CheckAll(symbol, 5, SectorOf(symbol))
    \/ \E symbol \in BookSymbols :
           AddPosition(symbol, 1, 5, "long", SectorOf(symbol), None)

SpecFrequency == InitDefault /\ [][NextFrequency]_vars

\* A sizer of any class: statistics updates (Kelly) and sizing calls in any order
InitSizers ==
    /\ InitRiskManager({"atr"})
    /\ sizer \in Sizers
    /\ sized = NoCall
    /\ history = <<>>
    /\ first = NoRun
    /\ InitNoReport

NextSizers ==
    \/ \E pnl \in PnLs : UpdateStats(pnl)
    \/ \E capital \in Capitals, price \in SizerPrices,
          signal_strength \in SignalStrengths, kwarg \in Kwargs(sizer.class) :
           CalculateSize(capital, price, signal_strength, kwarg)

SpecSizers == InitSizers /\ [][NextSizers]_vars

\* Two runs of one engine on the same inputs
InitRerun ==
    /\ InitRun({1}, {1}, BOOLEAN)
    /\ sig \in RerunSignals
    /\ InitManager({"atr"})
    /\ sizer = FixedFractionalSizer(<<1, 50>>, <<1, 10>>)
    /\ sized = NoCall
    /\ history = <<>>
    /\ first = [NoRun EXCEPT !.sig = sig, !.close = close]
    /\ InitNoReport

NextRerun == FirstRunBar \/ Rerun \/ SecondRunBar

SpecRerun == InitRerun /\ [][NextRerun]_vars

\* The same run at two commission rates, with the default sizer
InitCommission ==
    /\ InitRun(RaisedRates, {0}, BOOLEAN)
    /\ sig = 0
    /\ close = 2
    /\ InitManager({"atr"})
    /\ sizer = FixedFractionalSizer(<<1, 50>>, <<1, 10>>)
    /\ sized = NoCall
    /\ history = <<>>
    /\ first = [NoRun EXCEPT !.sig = sig, !.close = close]
    /\ InitNoReport

NextCommission == CheapRunBar \/ RaiseCommission \/ CostlyRunBar

SpecCommission == InitCommission /\ [][NextCommission]_vars

\* calculate_metrics called as run() calls it, on an equity curve and a ledger
InitMetrics ==
    /\ InitRiskManager({"atr"})
    /\ InitIdleSizer
    /\ measured \in {Asked(PctChange(c), c, t, NoBenchmark) : c \in Curves, t \in Ledgers}
    /\ backtest = NoBacktest
    /\ walk = NoWalk
    /\ monte = NoMonte
    /\ multi = NoMulti

NextMetrics == CallCalculateMetrics

SpecMetrics == InitMetrics /\ [][NextMetrics]_vars

\* calculate_metrics called with a benchmark
InitBenchmark ==
    /\ InitRiskManager({"atr"})
    /\ InitIdleSizer
    /\ measured \in {Asked(PctChange(c), c, <<>>, b) : c \in LongCurves, b \in Benchmarks}
    /\ backtest = NoBacktest
    /\ walk = NoWalk
    /\ monte = NoMonte
    /\ multi = NoMulti

NextBenchmark == CallCalculateMetrics

SpecBenchmark == InitBenchmark /\ [][NextBenchmark]_vars


\* One call of run() with any capital: BacktestConfig accepts what it is given
InitBacktest ==
    /\ config \in [initial_capital : RunCapitals,
                   commission : {1},
                   slippage : {0},
                   fractional_shares : {TRUE},
                   allow_shorting : BOOLEAN]
    /\ bar = 0
    /\ sig \in RunSignals
    /\ close \in Prices
    /\ cash = StartLocals.cash
    /\ shares = StartLocals.shares
    /\ entry_price = StartLocals.entry_price
    /\ entry_idx = StartLocals.entry_idx
    /\ equity = config.initial_capital * MoneyScale
    /\ trades = StartLocals.trades
    /\ leg = NoLeg
    /\ InitManager({"atr"})
    /\ sizer = FixedFractionalSizer(<<1, 50>>, <<1, 10>>)
    /\ sized = NoCall
    /\ history = <<>>
    /\ first = [NoRun EXCEPT !.sig = sig, !.close = close]
    /\ InitNoReport

NextBacktest == LoopBar \/ Return

SpecBacktest == InitBacktest /\ [][NextBacktest]_vars


\* run_monte_carlo on a base result of any size, for any number of trials
InitMonteCarlo ==
    /\ InitRun({1}, {0}, {TRUE})
    /\ sig = 0
    /\ close = 2
    /\ InitManager({"atr"})
    /\ InitIdleSizer
    /\ measured = NoMeasure
    /\ backtest \in {[status |-> "returned", trades |-> t] : t \in BaseTrades}
    /\ walk = NoWalk
    /\ monte \in {MonteAsked(n) : n \in 0..MaxSimulations}
    /\ multi = NoMulti

NextMonteCarlo == MonteCarloStart \/ MonteCarloTrial \/ MonteCarloEnd

SpecMonteCarlo == InitMonteCarlo /\ [][NextMonteCarlo]_vars


\* run_walk_forward on data of any length with any two periods
InitWalkForward ==
    /\ InitRun({1}, {0}, {TRUE})
    /\ sig = 0
    /\ close = 2
    /\ InitManager({"atr"})
    /\ InitIdleSizer
    /\ measured = NoMeasure
    /\ backtest = NoBacktest
    /\ walk \in {WalkAsked(n, train_period, test_period) :
                    n \in 0..MaxWalkBars, train_period \in 0..MaxTrain,
                    test_period \in 1..MaxTest}
    /\ monte = NoMonte
    /\ multi = NoMulti

NextWalkForward == WalkStart \/ WalkWindow \/ WalkBar \/ WalkWindowEnd \/ WalkReturn

SpecWalkForward == InitWalkForward /\ [][NextWalkForward]_vars


\* MultiAssetBacktester.run with any execution settings and weights
InitMultiAsset ==
    /\ InitRun({0}, {0}, {TRUE})
    /\ sig = 0
    /\ close = 2
    /\ InitManager({"atr"})
    /\ InitIdleSizer
    /\ measured = NoMeasure
    /\ backtest = NoBacktest
    /\ walk = NoWalk
    /\ monte = NoMonte
    /\ multi \in {MultiAsked(c, w) :
                     c \in [initial_capital : MultiCapitals, commission : {0},
                            slippage : {0}, fractional_shares : BOOLEAN,
                            allow_shorting : BOOLEAN],
                     w \in {NoWeights}
                           \cup {Weights(f) : f \in [1..Len(AssetSymbols) -> AssetWeights]}}

NextMultiAsset ==
    MultiStart \/ MultiSkip \/ MultiAsset \/ MultiBar \/ MultiAssetEnd \/ MultiReturn

SpecMultiAsset == InitMultiAsset /\ [][NextMultiAsset]_vars


\* Positions under adds, price updates, stop-loss scans and closes
MaxCloses == 1                     \* close_position calls explored
ScanEntries == {3}                 \* entry prices there
ScanPrices == {1, 5}               \* update_position_price prices there

NextStopLosses ==
    \/ \E symbol \in BookSymbols, price \in ScanEntries, side \in {"long", "short"} :
           AddPosition(symbol, 1, price, side, SectorOf(symbol), 1)
    \/ \E symbol \in BookSymbols, price \in ScanPrices :
           UpdatePositionPrice(symbol, price)
    \/ CheckStopLosses
    \/ \E symbol \in BookSymbols, price \in ScanEntries :
           /\ Len(trade_history) < MaxCloses
           /\ ClosePosition(symbol, price)

SpecStopLosses == InitStops /\ [][NextStopLosses]_vars


\* A run of the loop with one of the sizers, from every first bar
InitSized ==
    /\ InitRun(CommissionRates, {0}, BOOLEAN)
    /\ sig \in SizedSignals
    /\ close \in SizedPrices
    /\ InitManager({"atr"})
    /\ sizer \in RunSizers
    /\ sized = NoCall
    /\ history = <<>>
    /\ first = NoRun
    /\ InitNoReport

NextSized == SizedRunBar

SpecSized == InitSized /\ [][NextSized]_vars


\* Two runs on the same inputs, the second by an engine with other RiskLimits
NextRiskLimits == FirstRunBar \/ RerunWithLimits \/ SecondRunBar

SpecRiskLimits == InitRerun /\ [][NextRiskLimits]_vars

---------------------------------------------------------------------------
(* Claims about the execution simulator *)

\* C1: after every bar i >= 1 the recorded equity is cash + shares x close[i]
\* (shares negative for a short), and equity[0] is the initial capital.
AccountingIdentity ==
    /\ bar = 0 => equity = config.initial_capital * MoneyScale
    /\ bar >= 1 => equity = cash + shares * close * RateDen * RateDen

\* C1 witness: a bar has been processed and ended holding a short position
AccountingIdentityWitness ==
    bar >= 1 /\ shares < 0 /\ leg.opened < 0

\* C2: at a bar where the signal changed, equity after the trade is the
\* pre-trade mark-to-market value less the commission charged at the bar and
\* the slippage paid on the traded shares; with zero commission and zero
\* slippage a short entry or exit leaves equity unchanged.
EquityContinuity ==
    (bar >= 1 /\ leg.changed) =>
        /\ equity = leg.pre_value - leg.commission - leg.slippage
        /\ (config.commission = 0 /\ config.slippage = 0) => equity = leg.pre_value

---------------------------------------------------------------------------
(* Claims about the risk manager's halt state machine (SpecHalt) *)

\* The drawdown of the current state is at or over the limit, stated from the
\* manager's fields
AtMaxDrawdown ==
    /\ peak_equity > 0
    /\ (peak_equity - current_capital) * PctDen >= limits.max_drawdown * peak_equity

\* This step is a call that answers through `last`
Calls(op) == last'.op = op

\* C3: once check_drawdown_limits (called by itself or inside check_all) sees
\* a drawdown at or over max_drawdown it returns HaltTrading and the manager is
\* halted with a deadline; until that deadline no operation lifts the halt and
\* every check_all returns HaltTrading, whatever is proposed and whatever
\* update_equity, add_position or close_position does in between.
HaltUntilCooldown ==
    [][ /\ (Calls("check_drawdown_limits") /\ AtMaxDrawdown) =>
               /\ last'.result.action = "halt_trading"
               /\ is_halted'
               /\ cooldown_until' = now + limits.drawdown_cooldown_days * TicksPerDay
        /\ (Calls("check_all") /\ AtMaxDrawdown
            /\ (~is_halted \/ (cooldown_until # None /\ now >= cooldown_until))) =>
               /\ last'.checks[1].action = "halt_trading"
               /\ is_halted'
               /\ cooldown_until' = now + limits.drawdown_cooldown_days * TicksPerDay
        /\ (is_halted /\ now < cooldown_until) =>
               /\ is_halted'
               /\ cooldown_until' >= cooldown_until
               /\ Calls("check_all") => last'.result.action = "halt_trading"
        /\ is_halted' => cooldown_until' # None
      ]_vars

\* C3 witness: a check_all answered HaltTrading before the deadline although
\* the equity is back at its peak and a position has been opened since
HaltUntilCooldownWitness ==
    /\ last.op = "check_all"
    /\ last.halted_before
    /\ last.result.action = "halt_trading"
    /\ is_halted
    /\ now < cooldown_until
    /\ current_capital = peak_equity
    /\ positions # NoPositions

\* C4: the first check_all at or after the deadline resets the halt fields and
\* runs the rule battery: its result and the halt fields it leaves are those a
\* never-halted manager in the same state gives for the same proposal (Active,
\* with reason and deadline cleared, unless the drawdown is breached again).
CooldownReset ==
    [][ (is_halted /\ cooldown_until # None /\ now >= cooldown_until
         /\ Calls("check_all")) =>
            LET fresh == CheckAllOn(FALSE, "", None,
                                    last'.symbol, last'.value, last'.sector)
            IN  /\ last'.result = fresh.result
                /\ last'.checks = fresh.checks
                /\ Len(last'.checks) >= 1
                /\ <<is_halted', halt_reason', cooldown_until'>> = fresh.halt
                /\ ~AtMaxDrawdown =>
                       (~is_halted' /\ halt_reason' = "" /\ cooldown_until' = None)
      ]_vars

\* C4 witness: a check_all on a halted manager came back Allow and left it Active
CooldownResetWitness ==
    /\ last.op = "check_all"
    /\ last.halted_before
    /\ last.result.action = "allow"
    /\ ~is_halted
    /\ cooldown_until = None

\* Today's P&L is at or under -max_daily_loss, stated from the manager's fields
AtMaxDailyLoss ==
    /\ PrevEquity # None
    /\ PrevEquity > 0
    /\ (current_capital - PrevEquity) * PctDen <= -limits.max_daily_loss * PrevEquity

\* C5: a daily-loss breach seen by check_all halts the manager as a drawdown
\* breach does: is_halted becomes true and a cooldown deadline is set.
DailyLossHalts ==
    [][ (~is_halted /\ AtMaxDailyLoss /\ Calls("check_all")) =>
            (is_halted' /\ cooldown_until' # None) ]_vars

---------------------------------------------------------------------------
(* Claims about the rule battery (SpecRules) *)

\* C6: a check_all that is not short-circuited by a halt and returns, returns
\* one of the six rule results, and no rule result for the same state and
\* proposal has a more restrictive action.
MostRestrictiveReturned ==
    (last.op = "check_all" /\ ~last.halted_before /\ last.result # Raised) =>
        /\ last.checks = Battery(last.symbol, last.value, last.sector)
        /\ Len(last.checks) = 6
        /\ \E k \in 1..6 : last.checks[k] = last.result
        /\ \A k \in 1..6 :
               Priority(last.checks[k].action) <= Priority(last.result.action)

\* C6 witness: a Reject returned over a Reduce of an earlier rule
MostRestrictiveReturnedWitness ==
    /\ last.op = "check_all"
    /\ ~last.halted_before
    /\ last.result.action = "reject"
    /\ \E k \in 1..Len(last.checks) : last.checks[k].action = "reduce"

\* C7: with the book full and a symbol that is not held, check_position_limits
\* (and so check_all) answers at least Reject, whatever the proposed value.
RejectWhenFull ==
    (/\ last.op = "check_all"
     /\ ~last.halted_before
     /\ last.result # Raised
     /\ Cardinality(DOMAIN positions) >= limits.max_positions
     /\ last.symbol \notin DOMAIN positions) =>
        /\ Priority(last.checks[3].action) >= Priority("reject")
        /\ Priority(last.result.action) >= Priority("reject")

---------------------------------------------------------------------------
(* Claims about callers and the position-slot limit (SpecSerial, SpecRace) *)

\* C8: when every check_all + add_position is one atomic step and a position
\* is added only after Allow, the book never holds more than max_positions.
SerializedWithinLimit ==
    Cardinality(DOMAIN positions) <= limits.max_positions

\* C8 witness: a trade refused for lack of a slot, the book being full
SerializedWithinLimitWitness ==
    /\ last.op = "trade"
    /\ last.result = Result("reject", "Max positions reached")
    /\ Cardinality(DOMAIN positions) = limits.max_positions

\* Callers c and d checked different new symbols against the same book, which
\* had one free slot, before either added
RacedForLastSlot(c, d) ==
    /\ c # d
    /\ callers[c].pc # "idle" /\ callers[d].pc # "idle"
    /\ callers[c].symbol # callers[d].symbol
    /\ callers[c].new /\ callers[d].new
    /\ callers[c].free = 1 /\ callers[d].free = 1
    /\ callers[c].adds = callers[d].adds

\* C9: without serialization two callers that check different new symbols
\* while one slot is free are both let through by the slot check, and once
\* both have added, the book holds more than max_positions.
RaceOverfills ==
    \A c, d \in Callers :
        RacedForLastSlot(c, d) =>
            /\ callers[c].slot_check = Allow
            /\ callers[d].slot_check = Allow
            /\ callers[c].result.reason # "Max positions reached"
            /\ callers[d].result.reason # "Max positions reached"
            /\ (/\ callers[c].pc = "added" /\ callers[d].pc = "added"
                /\ callers[c].result.action = "allow"
                /\ callers[d].result.action = "allow") =>
                   Cardinality(DOMAIN positions) > limits.max_positions

\* C9 witness: both racing callers were answered Allow and have added
RaceOverfillsWitness ==
    \E c, d \in Callers :
        /\ RacedForLastSlot(c, d)
        /\ callers[c].pc = "added" /\ callers[d].pc = "added"
        /\ callers[c].result.action = "allow"
        /\ callers[d].result.action = "allow"
        /\ Cardinality(DOMAIN positions) = limits.max_positions + 1

---------------------------------------------------------------------------
(* Claims about stop-losses (SpecStops) *)

SetMax(S) == CHOOSE x \in S : \A y \in S : y <= x
SetMin(S) == CHOOSE x \in S : \A y \in S : x <= y

\* C10: with stop_loss_type = 'trailing', every update_position_price on an
\* open position leaves peak_price the highest (long) or lowest (short) price
\* seen since entry, and the stop at max(previous stop, peak x (1 - trailing))
\* for a long, min(previous stop, peak x (1 + trailing)) for a short: the stop
\* never loosens.
TrailingStopRatchets ==
    [][ (/\ limits.stop_loss_type = "trailing"
         /\ Calls("update_position_price")
         /\ last'.symbol \in DOMAIN positions) =>
            LET before == positions[last'.symbol]
                after == positions'[last'.symbol]
                prices == seen[last'.symbol] \cup {last'.value}
            IN  IF before.side = "long"
                THEN /\ after.peak_price = SetMax(prices)
                     /\ after.stop_loss =
                            Max2(before.stop_loss,
                                 after.peak_price * (PctDen - limits.trailing_stop_pct))
                     /\ after.stop_loss >= before.stop_loss
                ELSE /\ after.peak_price = SetMin(prices)
                     /\ after.stop_loss =
                            Min2(before.stop_loss,
                                 after.peak_price * (PctDen + limits.trailing_stop_pct))
                     /\ after.stop_loss <= before.stop_loss
      ]_vars

\* C10 witness: a long position whose stop a price update has raised above
\* the stop it was opened with
TrailingStopRatchetsWitness ==
    /\ limits.stop_loss_type = "trailing"
    /\ last.op = "update_position_price"
    /\ \E s \in DOMAIN positions :
           /\ positions[s].side = "long"
           /\ positions[s].current_price < positions[s].peak_price
           /\ positions[s].stop_loss > positions[s].entry_price * (PctDen - limits.stop_loss_pct)

---------------------------------------------------------------------------
(* Claims about the position book (SpecBook) *)

\* C11: every position ever added is still open or has one close record: the
\* number of add_position calls equals the number of open positions plus the
\* number of trade_history records, also when add_position is called for a
\* symbol that is already open.
NoPositionLost ==
    adds = Cardinality(DOMAIN positions) + Len(trade_history)

---------------------------------------------------------------------------
(* Claims about the rule checks at the edges (SpecRules, SpecFrequency) *)

\* C12: for every state with equity >= 0 (0 included) and every proposal,
\* check_all and each rule check it runs return a RiskCheckResult: none raises.
ChecksNeverRaise ==
    (last.op = "check_all" /\ current_capital >= 0) =>
        /\ last.result # Raised
        /\ \A k \in 1..Len(last.checks) : last.checks[k] # Raised

\* C13: check_trade_frequency (by itself or as the sixth check of check_all)
\* answers Reject exactly when the add_position calls made on the current local
\* date number max_trades_per_day or more, whatever the interleaving of adds,
\* checks and date rollovers.
RejectIffTradesToday ==
    /\ last.op = "check_trade_frequency" =>
           (last.result.action = "reject" <=> adds_today >= limits.max_trades_per_day)
    /\ (last.op = "check_all" /\ Len(last.checks) = 6) =>
           (last.checks[6].action = "reject" <=> adds_today >= limits.max_trades_per_day)

---------------------------------------------------------------------------
(* Claims about the position sizers (SpecSizers) *)

\* update_stats has been called with 10 losing P&Ls and no winning one
TenLosses ==
    /\ sizer.class = "KellyCriterion"
    /\ sizer.wins = 0
    /\ sizer.losses = 10
    /\ sizer.total_loss >= 10

\* C14: after 10 losing P&Ls and no winning one, KellyCriterion.calculate_size
\* returns position_type 'rejected' with shares = 0 and does not fault, for the
\* default min_trades and for any min_trades <= 10.
KellyRejectsLosers ==
    (TenLosses /\ sized # NoCall /\ sized.capital > 0) =>
        /\ sized.result # RaisedSize
        /\ sized.result.position_type = "rejected"
        /\ sized.result.shares = Zero

\* The stop_loss_pct a FixedFractionalSizer call was made with
StopLossPctOf(call) == IF call.kwarg = NoArg THEN <<1, 50>> ELSE call.kwarg

\* C15: for capital > 0, price > 0, signal_strength >= 0 and stop_loss_pct > 0,
\* FixedFractionalSizer.calculate_size returns dollar_value =
\* min(capital x fraction x signal_strength / stop_loss_pct, capital x
\* max_position), 'reduced' with a reason exactly when the uncapped value
\* exceeds the cap, 'full' otherwise.
FixedFractionalCap ==
    (/\ sizer.class = "FixedFractionalSizer"
     /\ sized # NoCall
     /\ sized.capital > 0 /\ sized.price > 0
     /\ FracLe(Zero, sized.signal_strength)
     /\ FracLt(Zero, StopLossPctOf(sized))) =>
        LET uncapped == FracDiv(FracMul(FracMul(Whole(sized.capital), sizer.fraction),
                                        sized.signal_strength),
                                StopLossPctOf(sized))
            cap == FracMul(Whole(sized.capital), sizer.max_position)
            r == sized.result
        IN  /\ r # RaisedSize
            /\ r.dollar_value = FracMin(uncapped, cap)
            /\ r.position_type \in {"full", "reduced"}
            /\ r.position_type = "reduced" <=> FracLt(cap, uncapped)
            /\ r.position_type = "reduced" => r.reason # ""
            /\ r.position_type = "full" => r.reason = ""

\* C15 witness: max_position = 0.10, capital = 100000, stop_loss_pct = 0.02,
\* fraction = 0.02 gave dollar_value 10000, 'reduced'
FixedFractionalCapWitness ==
    /\ sizer = FixedFractionalSizer(<<1, 50>>, <<1, 10>>)
    /\ sized.capital = 100000
    /\ sized.signal_strength = One
    /\ StopLossPctOf(sized) = <<1, 50>>
    /\ sized.result.dollar_value = Whole(10000)
    /\ sized.result.position_type = "reduced"

\* A calculate_size call has returned a PositionSize
Returned == sized # NoCall /\ sized.result # RaisedSize

\* C16: for every sizer and every input with capital >= 0, price > 0 and
\* signal_strength >= 0, the returned PositionSize has shares = 0 if and only
\* if position_type is 'rejected'.
ZeroSharesIffRejected ==
    (/\ Returned
     /\ sized.capital >= 0 /\ sized.price > 0
     /\ FracLe(Zero, sized.signal_strength)) =>
        (sized.result.shares = Zero <=> sized.result.position_type = "rejected")

\* C17: for every sizer and every input with capital > 0, price > 0 and
\* signal_strength in [0, 1], a PositionSize classified 'full' or 'reduced' has
\* weight in [0, 1].
WeightWithinCapital ==
    (/\ Returned
     /\ sized.capital > 0 /\ sized.price > 0
     /\ FracLe(Zero, sized.signal_strength) /\ FracLe(sized.signal_strength, One)
     /\ sized.result.position_type \in {"full", "reduced"}) =>
        (FracLe(Zero, sized.result.weight) /\ FracLe(sized.result.weight, One))

\* C18: every PositionSize returned by any sizer, for any Kelly statistics and
\* any sizer parameters, has position_type in {full, reduced, rejected} and a
\* non-empty reason whenever position_type is not 'full'.
ReasonUnlessFull ==
    Returned =>
        /\ sized.result.position_type \in {"full", "reduced", "rejected"}
        /\ sized.result.position_type # "full" => sized.result.reason # ""

---------------------------------------------------------------------------
(* Claims about runs of the simulator as a whole (SpecRerun, SpecCommission) *)

\* C19: a second run on the same bars, signals, config and sizer yields the
\* same equity curve (and positions and cash) bar for bar, and at its end the
\* same trade ledger: nothing the first run left influences the second.
RunsIdentical ==
    first.done =>
        /\ bar <= Len(first.history)
        /\ history = SubSeq(first.history, 1, bar)
        /\ bar = Len(first.history) => trades = first.trades

\* C19 witness: a second run has ended after a first run that traded and left
\* a position open
RunsIdenticalWitness ==
    /\ first.done
    /\ bar = Len(first.history)
    /\ bar >= 2
    /\ Len(first.trades) >= 1
    /\ first.history[bar].shares # 0
    /\ \E k \in 1..bar : first.history[k].equity # first.history[bar].equity

\* The run at the higher rate has ended
CostlyRunEnded == first.done /\ bar = Len(first.history)

\* Total P&L = final equity - initial capital, of the run in progress and of
\* the run at the lower rate
TotalPnL == equity - config.initial_capital * MoneyScale
CheapTotalPnL == first.history[bar].equity - config.initial_capital * MoneyScale

\* Both runs held the same position at every bar
SamePositions == \A k \in 1..bar : history[k].shares = first.history[k].shares

\* Neither run was ever short
LongOnly ==
    \A k \in 1..bar : history[k].shares >= 0 /\ first.history[k].shares >= 0

\* C20, as stated, in its case of long trades: for the same bars, signals,
\* sizer and other config values, the run at commission c2 >= c1 that closes
\* at least one trade ends with a total P&L no higher than the run at c1,
\* with fractional and with whole shares.
CostlierRunEarnsNoMore ==
    (CostlyRunEnded /\ LongOnly /\ Len(trades) >= 1 /\ Len(first.trades) >= 1) =>
        TotalPnL <= CheapTotalPnL

\* C20, amended: the same, for runs in which the sizer's answers leave both
\* runs holding the same number of shares at every bar.
CostlierRunEarnsNoMoreSameShares ==
    (CostlyRunEnded /\ Len(trades) >= 1 /\ SamePositions) =>
        TotalPnL <= CheapTotalPnL

\* C20 witness: two runs at different rates that held the same positions,
\* closed a trade and opened a second one; the costlier one ends lower
CostlierRunWitness ==
    /\ CostlyRunEnded
    /\ SamePositions
    /\ config.commission > first.commission
    /\ Len(trades) >= 1
    /\ shares # 0
    /\ TotalPnL < CheapTotalPnL

---------------------------------------------------------------------------
(* Claims about the legs the simulator executes (SpecEngine) *)

OpenedAt == entry_price
ClosedAt == trades[Len(trades)].exit_price

\* C23: slippage is always adverse and only applied on signal changes: every
\* buy leg (opening a long, closing a short) executes at a price >= close[i],
\* every sell leg (closing a long, opening a short) at a price <= close[i],
\* for every pair of consecutive signal values; on a bar where the signal is
\* unchanged nothing is executed.
SlippageAdverse ==
    bar >= 1 =>
        /\ leg.opened > 0 => OpenedAt >= close * RateDen
        /\ leg.closed < 0 => ClosedAt >= close * RateDen
        /\ leg.closed > 0 => ClosedAt <= close * RateDen
        /\ leg.opened < 0 => OpenedAt <= close * RateDen
        /\ ~leg.changed => leg.opened = 0 /\ leg.closed = 0

\* C24: every Trade emitted has quantity > 0, an exit bar strictly later than
\* its entry bar, and holding_period = exit index - entry index >= 1.
TradesWellFormed ==
    \A k \in 1..Len(trades) :
        /\ trades[k].quantity > 0
        /\ trades[k].exit_date > trades[k].entry_date
        /\ trades[k].holding_period = trades[k].exit_date - trades[k].entry_date
        /\ trades[k].holding_period >= 1

\* C24 witness: a short trade held for more than one bar has been emitted
TradesWellFormedWitness ==
    \E k \in 1..Len(trades) :
        trades[k].side = "short" /\ trades[k].holding_period >= 2

---------------------------------------------------------------------------
(* Claims about calculate_metrics (SpecMetrics, SpecBenchmark) *)

\* The running peak and the drawdown at bar k of the curve measured, stated
\* from the curve
PeakAt(k) ==
    CHOOSE x \in {measured.equity_curve[j] : j \in 1..k} :
        \A j \in 1..k : measured.equity_curve[j] <= x
DrawdownAt(k) == Frac(measured.equity_curve[k] - PeakAt(k), PeakAt(k))
Underwater(k) == measured.equity_curve[k] < PeakAt(k)
Bars == 1..Len(measured.equity_curve)

\* C27: max_drawdown is the minimum over bars of (equity - running peak) /
\* running peak, and max_drawdown_duration the length of the longest run of
\* consecutive bars strictly below the running peak; for the equity curve
\* [100,120,90,95,130] they are -0.25 and 2.
DrawdownCorrect ==
    measured.status = "returned" =>
        LET m == measured.metrics
            d == m.max_drawdown_duration
        IN  /\ m.max_drawdown.form = "exact"
            /\ \A k \in Bars : FracLe(m.max_drawdown.v, DrawdownAt(k))
            /\ \E k \in Bars : m.max_drawdown.v = DrawdownAt(k)
            /\ d >= 0
            /\ d > 0 => \E a \in Bars :
                            a + d - 1 \in Bars /\ \A k \in a..(a + d - 1) : Underwater(k)
            /\ ~\E a \in Bars : a + d \in Bars /\ \A k \in a..(a + d) : Underwater(k)
            /\ measured.equity_curve = <<100, 120, 90, 95, 130>> =>
                   m.max_drawdown = Exact(<<-1, 4>>) /\ d = 2

\* C27 witness: the metrics of the curve [100,120,90,95,130] have been returned
DrawdownCorrectWitness ==
    /\ measured.status = "returned"
    /\ measured.equity_curve = <<100, 120, 90, 95, 130>>
    /\ measured.metrics.max_drawdown = Exact(<<-1, 4>>)
    /\ measured.metrics.max_drawdown_duration = 2

\* The ledger measured has trades and none of them lost: the gross loss is 0
NoGrossLoss ==
    /\ Len(measured.trades) > 0
    /\ \A k \in 1..Len(measured.trades) : measured.trades[k].pnl[1] >= 0

\* C28: each degenerate denominator yields the ratio 0: sharpe_ratio = 0 when
\* volatility is 0, calmar_ratio = 0 and recovery_factor = 0 when max_drawdown
\* is 0, and profit_factor = 0 when there are trades but the gross loss is 0.
ZeroDenominatorGivesZero ==
    (measured.status = "returned" /\ Len(measured.returns) >= 2) =>
        LET m == measured.metrics
        IN  /\ m.volatility = Exact(Zero) => m.sharpe_ratio = Exact(Zero)
            /\ m.max_drawdown = Exact(Zero) =>
                   m.calmar_ratio = Exact(Zero) /\ m.recovery_factor = Exact(Zero)
            /\ NoGrossLoss => m.profit_factor = Exact(Zero)

\* The dates at which both the returns and the benchmark measured have an
\* observation, and the two series there
AlignedDates ==
    {k \in 1..Len(measured.returns) :
        /\ measured.benchmark.given
        /\ k >= measured.benchmark.start
        /\ k < measured.benchmark.start + Len(measured.benchmark.values)}
FirstAligned == CHOOSE k \in AlignedDates : \A j \in AlignedDates : k <= j
StrategyAligned ==
    [k \in 1..Cardinality(AlignedDates) |-> measured.returns[FirstAligned + k - 1]]
BenchmarkAligned ==
    [k \in 1..Cardinality(AlignedDates) |->
        measured.benchmark.values[FirstAligned + k - measured.benchmark.start]]

\* beta and alpha as computed from the aligned data
BetaOfData ==
    IF Cov(BenchmarkAligned, BenchmarkAligned) = Zero THEN One
    ELSE FracDiv(Cov(StrategyAligned, BenchmarkAligned),
                 Cov(BenchmarkAligned, BenchmarkAligned))
AlphaOfData ==
    FracMul(FracSub(FracMean(StrategyAligned),
                    FracMul(BetaOfData, FracMean(BenchmarkAligned))), Whole(252))

\* C29: the benchmark-relative statistics are the neutral values (alpha 0,
\* beta 1, correlation 0) exactly when fewer than 10 aligned observations
\* exist; with 10 or more they are computed from the data.
NeutralBelowTen ==
    measured.status = "returned" =>
        LET m == measured.metrics
        IN  /\ Cardinality(AlignedDates) < 10 =>
                   /\ m.alpha = Exact(Zero)
                   /\ m.beta = Exact(One)
                   /\ m.correlation = Exact(Zero)
            /\ Cardinality(AlignedDates) >= 10 =>
                   /\ m.alpha = Exact(AlphaOfData)
                   /\ m.beta = Exact(BetaOfData)
                   /\ m.correlation # Exact(Zero) \/ Cov(StrategyAligned, BenchmarkAligned) = Zero


---------------------------------------------------------------------------
(* Claims about whole runs *)

\* The signal series of the run is all zero, its first bar included
AllZeroSignals ==
    /\ first.sig = 0
    /\ \A k \in 1..Len(history) : history[k].sig = 0

\* C21: for an all-zero signal series over any valid bar series the run emits
\* zero trades, the equity at every bar equals the initial capital,
\* total_return is 0 and win_rate is 0.
NoTradeRun ==
    (backtest.status # "none" /\ AllZeroSignals /\ config.initial_capital > 0) =>
        /\ backtest.status = "returned"
        /\ backtest.trades = <<>>
        /\ \A k \in 1..Len(backtest.equity_curve) :
               backtest.equity_curve[k] = config.initial_capital * MoneyScale
        /\ backtest.metrics.total_return = Exact(Zero)
        /\ backtest.metrics.win_rate = Exact(Zero)

\* C25: a run with initial_capital <= 0 fails before any bar is simulated and
\* returns no result.
NonPositiveCapitalFails ==
    config.initial_capital <= 0 => (bar = 0 /\ backtest.status # "returned")


\* C26: run_monte_carlo returns an empty simulation list and raises nothing
\* whenever the base run has fewer than 10 trades, and produces exactly
\* n_simulations trials when the base run has 10 or more trades.
MonteCarloTrials ==
    monte.status \in {"returned", "raised"} =>
        /\ Len(backtest.trades) < 10 =>
               (monte.status = "returned" /\ monte.simulations = <<>>)
        /\ Len(backtest.trades) >= 10 =>
               (monte.status = "returned"
                /\ Len(monte.simulations) = monte.n_simulations)


\* The position the run of a window holds after its first loop bar, had it
\* started flat with the full initial capital and its signal not changed there
StartedFlat(w) ==
    /\ w.result.equity_curve[1] = config.initial_capital * MoneyScale
    /\ \A k \in 1..Len(w.result.positions) :
           (w.first.sig = 0 /\ \A j \in 1..k : w.result.positions[j].sig = 0) =>
               /\ w.result.positions[k].shares = 0
               /\ w.result.positions[k].cash = config.initial_capital * MoneyScale

\* C30: run_walk_forward with train_period T >= 0 and test_period P >= 1 on n
\* bars terminates and returns exactly max(0, floor((n - T) / P)) results; the
\* k-th result is an independent simulation, starting flat with the full
\* initial capital, of exactly the bars [T + k*P, T + (k+1)*P).
WalkForwardWindows ==
    /\ walk.status # "raised"
    /\ walk.status = "returned" =>
           /\ Len(walk.results)
                  = IF walk.n >= walk.train_period
                    THEN (walk.n - walk.train_period) \div walk.test_period ELSE 0
           /\ \A k \in 1..Len(walk.results) :
                  /\ walk.results[k].start = walk.train_period + (k - 1) * walk.test_period
                  /\ walk.results[k].stop = walk.train_period + k * walk.test_period
                  /\ Len(walk.results[k].result.equity_curve) = walk.test_period
                  /\ StartedFlat(walk.results[k])


---------------------------------------------------------------------------
(* Claims about the multi-asset runner *)

\* A share count in 1/ShareScale shares is a whole number of shares
WholeShares(sh) == sh % ShareScale = 0

\* C31: the multi-asset runner applies the per-bar core under the execution
\* settings of its config: with allow_shorting = false no per-asset simulation
\* opens a short position, with fractional_shares = false none holds a
\* non-integer number of shares, and every merged trade carries its symbol.
MultiKeepsSettings ==
    multi.status \in {"running", "looping", "returned"} =>
        /\ ~multi.config.allow_shorting =>
               /\ multi.status = "running" => shares >= 0
               /\ \A j \in 1..Len(multi.all_trades) : multi.all_trades[j].side # "short"
        /\ ~multi.config.fractional_shares =>
               /\ multi.status = "running" => WholeShares(shares)
               /\ \A j \in 1..Len(multi.all_trades) :
                      WholeShares(multi.all_trades[j].quantity)
        /\ \A j \in 1..Len(multi.all_trades) :
               \E a \in 1..Len(AssetSymbols) :
                   multi.all_trades[j].symbol = AssetSymbols[a]


---------------------------------------------------------------------------
(* Claims about stop-loss scans and closes (SpecStopLosses) *)

\* C32: check_stop_losses returns exactly the symbols of the open positions
\* that have a stop-loss and whose current price has crossed it (long: at or
\* below the stop, short: at or above it) and changes no Risk Manager state:
\* a triggered position stays in the mapping with its stop unchanged.
StopScanReportsOnly ==
    [][ Calls("check_stop_losses") =>
            /\ \A s \in BookSymbols :
                   s \in last'.result.symbols <=>
                       /\ s \in DOMAIN positions
                       /\ positions[s].stop_loss # None
                       /\ \/ /\ positions[s].side = "long"
                             /\ positions[s].current_price * PctDen
                                    <= positions[s].stop_loss
                          \/ /\ positions[s].side = "short"
                             /\ positions[s].current_price * PctDen
                                    >= positions[s].stop_loss
            /\ last'.result.symbols \subseteq DOMAIN positions'
            /\ positions' = positions
            /\ UNCHANGED <<limits, current_capital, peak_equity, equity_history,
                           trade_history, daily_trades, last_trade_date, is_halted,
                           halt_reason, cooldown_until>>
      ]_vars

\* C32 witness: a scan has reported a long whose price is exactly at its stop
\* beside an open position it has not reported
StopScanReportsOnlyWitness ==
    /\ last.op = "check_stop_losses"
    /\ \E s \in last.result.symbols, u \in DOMAIN positions :
           /\ positions[s].side = "long"
           /\ positions[s].current_price * PctDen = positions[s].stop_loss
           /\ u \notin last.result.symbols


---------------------------------------------------------------------------
(* Claims about the length of the halt (SpecCooldown) *)

\* C33: the cooldown has a fixed length: while the manager is halted and the
\* deadline has not passed, no public operation (check_all,
\* check_drawdown_limits, update_equity, add_position, close_position) moves
\* the cooldown deadline later, so the halt ends no later than
\* drawdown_cooldown_days after it was first triggered.
CooldownDeadlineFixed ==
    [][ (is_halted /\ cooldown_until # None /\ now < cooldown_until /\ is_halted')
            => cooldown_until' <= cooldown_until ]_vars


\* C37: in every reachable Risk Manager state is_halted is true if and only
\* if a cooldown deadline is set, and halt_reason is non-empty whenever
\* is_halted is true, so every halted state has a deadline at which check_all
\* leaves the halt.
HaltedIffDeadline ==
    /\ is_halted <=> cooldown_until # None
    /\ is_halted => halt_reason # ""
    /\ ~is_halted => halt_reason = ""

\* C37 witness: a halted manager with its reason and a deadline that has been
\* reached, an equity under the peak having been recorded
HaltedIffDeadlineWitness ==
    /\ is_halted
    /\ halt_reason # ""
    /\ cooldown_until # None
    /\ now >= cooldown_until
    /\ \E t \in 1..Len(equity_history) : equity_history[t][2] < peak_equity


\* C38: the trade result of close_position(symbol, price) is internally
\* consistent: its pnl and pnl_pct are those of its own exit_price, whatever
\* price is passed, also one that differs from the last update_position_price.
CloseResultConsistent ==
    \A t \in 1..Len(trade_history) :
        LET trade == trade_history[t]
            move == IF trade.side = "long"
                    THEN trade.exit_price - trade.entry_price
                    ELSE trade.entry_price - trade.exit_price
            base == IF trade.side = "long" THEN trade.entry_price ELSE trade.exit_price
        IN  /\ trade.pnl = move * Abs(trade.quantity)
            /\ trade.pnl_pct[1] * base = move * trade.pnl_pct[2]


---------------------------------------------------------------------------
(* Claims about runs with a sizer (SpecSized) *)

\* The run of the claims on the default sizer: shorting allowed, fractional
\* shares, Fixed-Fractional sizing, cash positive
DefaultSizedRun ==
    /\ config.allow_shorting
    /\ config.fractional_shares
    /\ sizer = FixedFractionalSizer(<<1, 50>>, <<1, 10>>)
    /\ \A h \in 1..Len(history) : history[h].cash > 0

\* C34: position follows signal: with allow_shorting and fractional_shares
\* true, the default Fixed-Fractional sizer and positive cash, after every bar
\* i >= 1 the position is long iff signal[i] > 0, short iff signal[i] < 0 and
\* flat iff signal[i] = 0, also for a signal that is non-zero at bar 0 and
\* stays constant.
PositionFollowsSignal ==
    (DefaultSizedRun /\ bar >= 1) => Sign(shares) = Sign(sig)


Exposure ==
    CASE sizer.class = "FixedFractionalSizer" -> sizer.max_position
      [] sizer.class = "VolatilityTargeting" ->
             FracMin(FracDiv(sizer.target_volatility, <<1, 5>>), sizer.max_leverage)
      [] sizer.class = "RiskParity" -> <<1, 10>>

\* With its commission a position never costs more than the capital
Unleveraged ==
    FracLe(FracMul(Exposure, <<RateDen + config.commission, RateDen>>), One)

\* No short has been held in the run
NoShortHeld == \A h \in 1..Len(history) : history[h].shares >= 0

CashBeforeEntry(trade) == history[trade.entry_date].capital

CashAfterExit(trade) ==
    IF history[trade.exit_date].asked THEN history[trade.exit_date].capital
    ELSE history[trade.exit_date].cash

\* C36: the pnl of every Trade equals the net change of cash its round trip
\* caused (cash just after the exit minus cash just before the entry), net of
\* the entry and the exit commission; hence, when the run ends flat, final
\* equity minus initial capital equals the sum of the pnl of the trades.
PnlIsCashChange ==
    /\ \A t \in 1..Len(trades) :
           trades[t].pnl = CashAfterExit(trades[t]) - CashBeforeEntry(trades[t])
    /\ shares = 0 =>
           equity - config.initial_capital * MoneyScale
               = SumOver(DOMAIN trades, [t \in DOMAIN trades |-> trades[t].pnl])


---------------------------------------------------------------------------
(* Claims about the Monte Carlo trials (SpecMonteCarlo) *)

RoundedOps == 2 * Len(monte.trade_returns)

---------------------------------------------------------------------------
(* Claims about the engine's risk manager (SpecRiskLimits) *)

====
